---- MODULE Spec2Model ----
(***************************************************************************)
(* A model of lib-cfg (cfg.hpp / cfg.cpp): the command pipeline of         *)
(* CommandManagerImpl (command buffer, splitter, tokenizer, dispatch) and  *)
(* the CVar registry of CVarManagerImpl (typed values, flags, writes).     *)
(*                                                                         *)
(* Text is modelled as sequences of one-character strings.  The program's  *)
(* fixed capacities are scaled down so that the overflow paths are inside  *)
(* the explored state space; each scaled value names the program constant  *)
(* it stands for.                                                          *)
(***************************************************************************)
EXTENDS Integers, Sequences, FiniteSets, TLC

VARIABLES
    cmdBuffer,              \* CommandManagerImpl::cmdBuffer[0 .. cmdBufferUsed-1]
    registeredCommands,     \* CommandManagerImpl::registeredCommands (name -> entry)
    disabledCmdFlags,       \* CommandManagerImpl::disabledCmdFlags (a set of flag bits)
    aborted,                \* the process hit a failed CFG_ASSERT / invalid access
    lastExec,               \* observation of the last CommandManager call
    registeredCVars,        \* CVarManagerImpl::registeredCVars (name -> entry)
    allowWritingRomCVars,   \* CVarManagerImpl::allowWritingRomCVars
    allowWritingInitCVars,  \* CVarManagerImpl::allowWritingInitCVars
    lastCVarOp,             \* observation of the last CVar call
    splitIn,                \* input text of the splitter / tokenizer checks
    convIn,                 \* input and result of the value conversion checks
    hashTable,              \* a LinkedHashTable used on its own, and its last call
    cmdAliasCount,          \* CommandManagerImpl::cmdAliasCount
    lastRegOp,              \* observation of the last registry call
    removedCVars,           \* names removeCVar has removed, not registered since
    lineEdit,               \* SimpleCommandTerminal: lineBuffer, lineBufferUsed,
                            \* lineBufferInsertionPos, and the last editing call
    cfgFile,                \* the config file, and the last saveConfig / reloadConfig
    history,                \* SimpleCommandTerminal: cmdHistory, indexCmdHistory,
                            \* currCmdInHistory, and the last history call
    nameIn,                 \* input and result of the name validation checks
    startup,                \* the last execStartupCommandLine call, and the last runtime set
    tokIn,                  \* the text given to the tokenizer and what it reported
    term,                   \* SimpleCommandTerminal: the [TAB] completion fields, and
                            \* the last key handled
    input                   \* UnixTerminal: inputBuffer and its index, the input thread
                            \* and the getInput call under way

vars == << cmdBuffer, registeredCommands, disabledCmdFlags, aborted, lastExec,
           registeredCVars, allowWritingRomCVars, allowWritingInitCVars, lastCVarOp,
           splitIn, convIn, hashTable, cmdAliasCount, lastRegOp,
           removedCVars, lineEdit, cfgFile, history, nameIn, startup, tokIn, term,
           input >>

cmdVars  == << cmdBuffer, registeredCommands, disabledCmdFlags, aborted, lastExec >>
cvarVars == << registeredCVars, allowWritingRomCVars, allowWritingInitCVars, lastCVarOp >>
regVars  == << cmdAliasCount, lastRegOp, removedCVars >>
ioVars   == << lineEdit, cfgFile >>
termVars == << history, nameIn, startup, tokIn, term, input >>
moreVars == << hashTable, regVars, ioVars, termVars >>

-----------------------------------------------------------------------------
(* Capacities.  The program values are in the comments; the model uses     *)
(* small values so that every limit is reached.                            *)

\* cfg.hpp:382  MaxCommandNameLength = 32
MaxCommandNameLength == 3
\* cfg.hpp:384  MaxCommandArgStrLength = 2048
MaxCommandArgStrLength == 5
\* cfg.hpp:385  MaxCommandArguments = 64
MaxCommandArguments == 1
\* cfg.hpp:386  MaxReentrantCommands = 999999
MaxReentrantCommands == 5
\* cfg.hpp:387  CommandBufferSize = 65535
CommandBufferSize == 7
\* cfg.cpp:4649 MaxRecursionDepth = 15
MaxRecursionDepth == 2

CommandTextSeparator == ";"

\* CommandManager::ExecAll (~0u): larger than any count a call can reach.
ExecAll == 0 - 1

\* The command flag bits in use; CommandManager::DisableAll (~0u) is all of them.
CommandFlagBits == {1, 2}

DisableAll == CommandFlagBits

\* Nesting of execNow calls (an Immediate alias run from a handler) that the
\* call stack holds.
MaxCallDepth == 3

-----------------------------------------------------------------------------
(* Characters and small string helpers.                                    *)

Letters == {"a", "b", "c", "d", "e", "f", "g", "h", "i", "j", "k", "l", "m",
            "n", "o", "p", "q", "r", "s", "t", "u", "v", "w", "x", "y", "z"}
Digits  == {"0", "1", "2", "3", "4", "5", "6", "7", "8", "9"}

IsWhitespace(c) == c \in {" ", "\t", "\n", "\r"}

Min(a, b) == IF a < b THEN a ELSE b

Tail0(s) == IF s = << >> THEN << >> ELSE Tail(s)

DropFirst(s, n) == SubSeq(s, n + 1, Len(s))

\* copyString(dest + offset, size, source): the characters that fit, which is
\* min(strlen(source), size - 1).
CopyString(size, source) == SubSeq(source, 1, Min(Len(source), size - 1))

NUL == "NUL"

CharAt(s, i) == IF i >= 1 /\ i <= Len(s) THEN s[i] ELSE NUL

IsLetter(c) == c \in Letters

IsDigit(c) == c \in Digits

-----------------------------------------------------------------------------
(* CVarManagerImpl::isValidCVarName (cfg.cpp:2453).  Index i is 1-based.   *)

RECURSIVE ValidNameLoop(_, _)
ValidNameLoop(name, i) ==
    IF CharAt(name, i) = NUL THEN TRUE
    ELSE LET c == name[i]
             d == CharAt(name, i + 1)
         IN  IF IsDigit(c) \/ IsLetter(c) THEN ValidNameLoop(name, i + 1)
             ELSE IF c # "." /\ c # "_" THEN FALSE
             ELSE IF c = "." /\ d = NUL THEN FALSE
             ELSE IF c = "."
                  THEN IF ~IsLetter(d) /\ d # "_" THEN FALSE
                       ELSE ValidNameLoop(name, i + 2)
                  ELSE IF ~IsDigit(d) /\ ~IsLetter(d) /\ d # "_" /\ d # "." THEN FALSE
                       ELSE ValidNameLoop(name, i + 2)

IsValidCVarName(name) ==
    IF name = << >> THEN FALSE
    ELSE IF ~IsLetter(name[1]) /\ name[1] # "_" THEN FALSE
    ELSE ValidNameLoop(name, 2)

-----------------------------------------------------------------------------
(* StringHasher (cfg.cpp:754-773): the 32-bit one-at-a-time hash of a name. *)
(* A std::uint32_t is kept as the pair << high 16 bits, low 16 bits >>.     *)

\* The printable ASCII characters in code order, from 32 (space) to 126; the
\* grave accent (96), which no string here can hold, is spelled out.
AsciiTable ==
    << " ", "!", "\"", "#", "$", "%", "&", "'", "(", ")", "*", "+", ",", "-", ".", "/",
       "0", "1", "2", "3", "4", "5", "6", "7", "8", "9", ":", ";", "<", "=", ">", "?",
       "@", "A", "B", "C", "D", "E", "F", "G", "H", "I", "J", "K", "L", "M", "N", "O",
       "P", "Q", "R", "S", "T", "U", "V", "W", "X", "Y", "Z", "[", "\\", "]", "^", "_",
       "grave", "a", "b", "c", "d", "e", "f", "g", "h", "i", "j", "k", "l", "m", "n", "o",
       "p", "q", "r", "s", "t", "u", "v", "w", "x", "y", "z", "{", "|", "}", "~" >>

CharCode(c) ==
    CASE c = "\t" -> 9
      [] c = "\n" -> 10
      [] c = "\r" -> 13
      [] OTHER -> 31 + (CHOOSE k \in 1..Len(AsciiTable) : AsciiTable[k] = c)

\* Bitwise exclusive or of two naturals.
RECURSIVE BitXor(_, _)
BitXor(a, b) ==
    IF a = 0 THEN b
    ELSE IF b = 0 THEN a
    ELSE 2 * BitXor(a \div 2, b \div 2) + ((a + b) % 2)

\* h + g on std::uint32_t.
U32Add(h, g) ==
    << (h[1] + g[1] + ((h[2] + g[2]) \div 65536)) % 65536, (h[2] + g[2]) % 65536 >>

\* h << k on std::uint32_t, 0 < k < 16.
U32Shl(h, k) ==
    << (h[1] * (2 ^ k) + (h[2] \div (2 ^ (16 - k)))) % 65536, (h[2] * (2 ^ k)) % 65536 >>

\* h >> k on std::uint32_t, 0 < k < 16.
U32Shr(h, k) ==
    << h[1] \div (2 ^ k), (h[2] \div (2 ^ k)) + (h[1] % (2 ^ k)) * (2 ^ (16 - k)) >>

U32Xor(h, g) == << BitXor(h[1], g[1]), BitXor(h[2], g[2]) >>

\* h += (h << k).
AddShl(h, k) == U32Add(h, U32Shl(h, k))

\* h ^= (h >> k).
XorShr(h, k) == U32Xor(h, U32Shr(h, k))

\* The loop of StringHasher::operator(), from character i, then the final
\* mixing.
RECURSIVE OatLoop(_, _, _)
OatLoop(str, i, h) ==
    IF i > Len(str) THEN AddShl(XorShr(AddShl(h, 3), 11), 15)
    ELSE OatLoop(str, i + 1, XorShr(AddShl(U32Add(h, << 0, CharCode(str[i]) >>), 10), 6))

StringHasher(str) == OatLoop(str, 1, << 0, 0 >>)

\* The names the registries of the specifications are keyed with; their
\* hashes are computed once.
KeyNames ==
    {<< c >> : c \in Letters \cup Digits}
    \cup {<< "a", "q", "a", "a" >>, << "e", "l", "u", "e" >>}
    \cup {<< "s", "e", "t" >>, << "a", "l", "i", "a", "s" >>}
    \cup {<< "r", "e", "s", "e", "t" >>, << "b", ".", "m" >>}
    \cup {<< "a", "a" >>, << "a", "b" >>, << "b", "a" >>, << "b", "b" >>,
          << "a", "a", "a" >>, << "a", "a", "b" >>, << "a", "b", "a" >>,
          << "a", "b", "b" >>, << "b", "a", "a" >>, << "b", "a", "b" >>,
          << "b", "b", "a" >>, << "b", "b", "b" >>}

KeyHashes == [key \in KeyNames |-> StringHasher(key)]

\* LinkedHashTable::hashOf.
HashOf(key) == IF key \in KeyNames THEN KeyHashes[key] ELSE StringHasher(key)

-----------------------------------------------------------------------------
(* class LinkedHashTable (cfg.cpp:862-1040).  A table is the chain of all   *)
(* nodes, most recently linked first; a bucket chain is the part of it with *)
(* that bucket's hashes, in the same order.  findByKey and unlinkByKey      *)
(* compare the hash keys only.                                             *)

NoEntry == [name |-> << >>, kind |-> "none"]

RECURSIVE FindByKey(_, _)
FindByKey(table, key) ==
    IF table = << >> THEN NoEntry
    ELSE IF Head(table).hashKey = HashOf(key) THEN Head(table)
    ELSE FindByKey(Tail(table), key)

-----------------------------------------------------------------------------
(* CVar values and their conversions (cfg.cpp:1270-1680).  A CVar entry is  *)
(*   [name, kind |-> "cvar", type, currentValue, defaultValue, valueRange,  *)
(*    numberFormat, flags]                                                  *)
(* with type "Int" (std::int64_t), "Bool" or "String".  A double argument   *)
(* is given in halves: the integer h stands for the double h / 2.           *)

DigitChars == << "0", "1", "2", "3", "4", "5", "6", "7", "8", "9",
                 "A", "B", "C", "D", "E", "F" >>

\* The conversion loop of intToString, most significant digit first.
RECURSIVE UDigits(_, _)
UDigits(number, numBase) ==
    IF number < numBase THEN << DigitChars[number + 1] >>
    ELSE UDigits(number \div numBase, numBase) \o << DigitChars[(number % numBase) + 1] >>

\* intToString (cfg.cpp:631) on a value that fits the destination buffer.
\* Only a negative decimal is negated; the model keeps other bases to
\* non-negative values.
IntToString(number, numBase) ==
    IF numBase = 16 THEN << "0", "x" >> \o UDigits(number, 16)
    ELSE IF number < 0 /\ numBase = 10 THEN << "-" >> \o UDigits(0 - number, 10)
    ELSE UDigits(number, numBase)

NumberBase(numberFormat) ==
    CASE numberFormat = "Binary"      -> 2
      [] numberFormat = "Octal"       -> 8
      [] numberFormat = "Decimal"     -> 10
      [] numberFormat = "Hexadecimal" -> 16

\* getBoolStrings(): the accepted spellings, first pair used for printing.
BoolStrings == << [trueStr  |-> << "t", "r", "u", "e" >>,
                   falseStr |-> << "f", "a", "l", "s", "e" >>],
                  [trueStr  |-> << "y", "e", "s" >>,
                   falseStr |-> << "n", "o" >>],
                  [trueStr  |-> << "o", "n" >>,
                   falseStr |-> << "o", "f", "f" >>],
                  [trueStr  |-> << "1" >>,
                   falseStr |-> << "0" >>] >>

\* static_cast<std::int64_t>(double): truncation toward zero, on halves.
TruncHalves(h) == IF h >= 0 THEN h \div 2 ELSE 0 - ((0 - h) \div 2)

\* snprintf("%.8g") followed by trimTrailingZeros, on halves.
DoubleToString(h) ==
    LET mag   == IF h >= 0 THEN h ELSE 0 - h
        whole == UDigits(mag \div 2, 10)
        frac  == IF mag % 2 = 1 THEN << ".", "5" >> ELSE << >>
    IN  (IF h < 0 THEN << "-" >> ELSE << >>) \o whole \o frac

\* cvarToString by value type (cfg.cpp:1346-1395).
CvarToString(type, val, numberFormat) ==
    CASE type = "Int"    -> IntToString(val, NumberBase(numberFormat))
      [] type = "Bool"   -> IF val THEN BoolStrings[1].trueStr ELSE BoolStrings[1].falseStr
      [] type = "String" -> val
      [] type = "Enum"   -> IF val.name # << >> THEN val.name
                            ELSE IntToString(val.value, NumberBase(numberFormat))

HexValue(c) ==
    CASE c \in Digits -> CHOOSE k \in 0..9 : DigitChars[k + 1] = c
      [] c \in {"a", "A"} -> 10
      [] c \in {"b", "B"} -> 11
      [] c \in {"c", "C"} -> 12
      [] c \in {"d", "D"} -> 13
      [] c \in {"e", "E"} -> 14
      [] c \in {"f", "F"} -> 15
      [] OTHER -> 99

\* The digit loop of strtoll: [n |-> digits consumed, value |-> magnitude].
RECURSIVE ScanDigits(_, _, _, _, _)
ScanDigits(s, i, base, n, acc) ==
    IF CharAt(s, i) # NUL /\ HexValue(s[i]) < base
    THEN ScanDigits(s, i + 1, base, n + 1, acc * base + HexValue(s[i]))
    ELSE [n |-> n, value |-> acc]

RECURSIVE SkipSpaces(_, _)
SkipSpaces(s, i) ==
    IF CharAt(s, i) # NUL /\ IsWhitespace(s[i]) THEN SkipSpaces(s, i + 1) ELSE i

\* cvarToInt64(const std::string &) (cfg.cpp:1284): strtoll with base 0.
\* Fails only when no digit was consumed; text after the number is ignored.
CvarToInt64(str) ==
    LET i0   == SkipSpaces(str, 1)
        neg  == CharAt(str, i0) = "-"
        i1   == IF CharAt(str, i0) \in {"-", "+"} THEN i0 + 1 ELSE i0
        isHex == /\ CharAt(str, i1) = "0"
                 /\ CharAt(str, i1 + 1) \in {"x", "X"}
                 /\ CharAt(str, i1 + 2) # NUL
                 /\ HexValue(CharAt(str, i1 + 2)) < 16
        scan == IF isHex THEN ScanDigits(str, i1 + 2, 16, 1, 0)
                ELSE IF CharAt(str, i1) = "0" THEN ScanDigits(str, i1, 8, 0, 0)
                ELSE ScanDigits(str, i1, 10, 0, 0)
    IN  [ok    |-> scan.n > 0,
         value |-> IF scan.n = 0 THEN 0
                   ELSE IF neg THEN 0 - scan.value ELSE scan.value]

-----------------------------------------------------------------------------
(* cvarSetInt64 / cvarSetDouble / cvarSetString (cfg.cpp:1405-1680): the    *)
(* typed stores behind every setter.  `range` is the value range when the  *)
(* variable is range checked and NoRange otherwise (the nullptr argument). *)
(* Result: [ok, val].                                                      *)

NoRange == [none |-> TRUE]

NumberRange(minValue, maxValue) == [none |-> FALSE, minValue |-> minValue, maxValue |-> maxValue]

\* CVarAllowedStrings: hasList is "strings != nullptr".
AllowedStrings(hasList, strings) == [none |-> FALSE, hasList |-> hasList, strings |-> strings]

\* CVarEnumConstList: hasList is "names != nullptr".  An enum value is the
\* CVarEnumConst [name, value], name empty when no constant is known.
EnumConstList(hasList, names, values) ==
    [none |-> FALSE, hasList |-> hasList, names |-> names, values |-> values]

\* Index of the first element of list equal to x, 0 when there is none.
FirstIndex(list, x) ==
    IF \E k \in 1..Len(list) : list[k] = x
    THEN CHOOSE k \in 1..Len(list) : list[k] = x /\ \A j \in 1..(k - 1) : list[j] # x
    ELSE 0

\* The constant found at index c of the list, or the refusal.
EnumConstAt(old, range, c) ==
    IF c = 0 THEN [ok |-> FALSE, val |-> old]
    ELSE [ok |-> TRUE, val |-> [name |-> range.names[c], value |-> range.values[c]]]

SeqContains(list, str) == \E k \in 1..Len(list) : list[k] = str

\* The allowed-strings test shared by the three std::string stores.
StoreString(old, str, range) ==
    IF ~range.none /\ range.hasList
    THEN IF SeqContains(range.strings, str)
         THEN [ok |-> TRUE, val |-> str]
         ELSE [ok |-> FALSE, val |-> old]
    ELSE [ok |-> TRUE, val |-> str]

CvarSetInt64(type, old, newVal, range, numberFormat) ==
    CASE type = "Int" ->
           IF ~range.none /\ (newVal < range.minValue \/ newVal > range.maxValue)
           THEN [ok |-> FALSE, val |-> old]
           ELSE [ok |-> TRUE, val |-> newVal]
      [] type = "Bool" -> [ok |-> TRUE, val |-> (newVal > 0)]
      [] type = "String" ->
           StoreString(old, CvarToString("Int", newVal, numberFormat), range)
      [] type = "Enum" ->
           IF ~range.none /\ range.hasList
           THEN EnumConstAt(old, range, FirstIndex(range.values, newVal))
           ELSE [ok |-> TRUE, val |-> [name |-> << >>, value |-> newVal]]

\* newVal is in halves; an Int range bound b is the double b, i.e. 2 * b halves.
CvarSetDouble(type, old, newVal, range) ==
    CASE type = "Int" ->
           IF ~range.none /\ (newVal < 2 * range.minValue \/ newVal > 2 * range.maxValue)
           THEN [ok |-> FALSE, val |-> old]
           ELSE [ok |-> TRUE, val |-> TruncHalves(newVal)]
      [] type = "Bool" -> [ok |-> TRUE, val |-> (newVal > 0)]
      [] type = "String" -> StoreString(old, DoubleToString(newVal), range)
      [] type = "Enum" -> CvarSetInt64("Enum", old, TruncHalves(newVal), range, "Decimal")

\* The scan of getBoolStrings() in cvarSetString(bool *).
RECURSIVE BoolFromString(_, _)
BoolFromString(str, s) ==
    IF s > Len(BoolStrings) THEN [ok |-> FALSE, val |-> FALSE]
    ELSE IF BoolStrings[s].trueStr = str THEN [ok |-> TRUE, val |-> TRUE]
    ELSE IF BoolStrings[s].falseStr = str THEN [ok |-> TRUE, val |-> FALSE]
    ELSE BoolFromString(str, s + 1)

CvarSetString(type, old, newVal, range) ==
    CASE type = "Int" ->
           LET temp == CvarToInt64(newVal)
           IN  IF ~temp.ok THEN [ok |-> FALSE, val |-> old]
               ELSE CvarSetInt64("Int", old, temp.value, range, "Decimal")
      [] type = "Bool" ->
           LET b == BoolFromString(newVal, 1)
           IN  IF b.ok THEN b ELSE [ok |-> FALSE, val |-> old]
      [] type = "String" -> StoreString(old, newVal, range)
      [] type = "Enum" ->
           IF ~range.none /\ range.hasList
           THEN EnumConstAt(old, range, FirstIndex(range.names, newVal))
           ELSE LET temp == CvarToInt64(newVal)
                IN  IF temp.ok
                    THEN [ok |-> TRUE, val |-> [name |-> << >>, value |-> temp.value]]
                    ELSE [ok |-> FALSE, val |-> old]

-----------------------------------------------------------------------------
(* class CVarImpl (cfg.cpp:1777-2170).  Each member function is an operator *)
(* from the entry to [ok, cvar].                                            *)

CVarFlags == {"Modified", "Persistent", "Volatile", "ReadOnly", "InitOnly",
              "RangeCheck", "UserDefined"}

\* CVarImpl constructor: current and default value are both the init value.
NewCVar(name, type, flags, initValue, valueRange) ==
    [name |-> name, kind |-> "cvar", type |-> type,
     currentValue |-> initValue, defaultValue |-> initValue,
     valueRange |-> valueRange, numberFormat |-> "Decimal", flags |-> flags]

\* CVarImpl::setNumberFormat.
SetNumberFormat(cvar, format) == [cvar EXCEPT !.numberFormat = format]

\* registerCVarEnum: the initial CVarEnumConst carries the name of the first
\* constant whose value is initValue, and no name when there is none.
EnumInitValue(initValue, list) ==
    [name  |-> IF list.hasList /\ FirstIndex(list.values, initValue) # 0
               THEN list.names[FirstIndex(list.values, initValue)]
               ELSE << >>,
     value |-> initValue]

IsModified(cvar) == "Modified" \in cvar.flags

\* Faulty variant of IsWritable: InitOnly is not looked at.
IsWritableRomOnly(cvar) == "ReadOnly" \notin cvar.flags

IsWritable(cvar) == cvar.flags \cap {"ReadOnly", "InitOnly"} = {}

IsPersistent(cvar) == "Persistent" \in cvar.flags

IsRangeChecked(cvar) == "RangeCheck" \in cvar.flags

SetModified(cvar) == [cvar EXCEPT !.flags = @ \cup {"Modified"}]

ClearModified(cvar) == [cvar EXCEPT !.flags = @ \ {"Modified"}]

\* The argument "(isRangeChecked() ? &valueRange : nullptr)".
RangeArg(cvar) == IF IsRangeChecked(cvar) THEN cvar.valueRange ELSE NoRange

Failed(cvar) == [ok |-> FALSE, cvar |-> cvar]

\* The common tail of the public setters: store, then setModified().
StoreModified(cvar, r) ==
    IF r.ok THEN [ok |-> TRUE, cvar |-> SetModified([cvar EXCEPT !.currentValue = r.val])]
    ELSE Failed(cvar)

SetIntValue(cvar, newValue) ==
    IF ~IsWritable(cvar) THEN Failed(cvar)
    ELSE StoreModified(cvar, CvarSetInt64(cvar.type, cvar.currentValue, newValue,
                                          RangeArg(cvar), cvar.numberFormat))

\* The bool argument converts to the std::int64_t 0 or 1.
SetBoolValue(cvar, newValue) ==
    IF ~IsWritable(cvar) THEN Failed(cvar)
    ELSE StoreModified(cvar, CvarSetInt64(cvar.type, cvar.currentValue,
                                          IF newValue THEN 1 ELSE 0,
                                          RangeArg(cvar), cvar.numberFormat))

SetFloatValue(cvar, newValue) ==
    IF ~IsWritable(cvar) THEN Failed(cvar)
    ELSE StoreModified(cvar, CvarSetDouble(cvar.type, cvar.currentValue, newValue,
                                           RangeArg(cvar)))

SetStringValue(cvar, newValue) ==
    IF ~IsWritable(cvar) THEN Failed(cvar)
    ELSE StoreModified(cvar, CvarSetString(cvar.type, cvar.currentValue, newValue,
                                           RangeArg(cvar)))

\* The two refusals shared by the ...IgnoreRO members.
IgnoreRORefused(cvar, writeRomCVars, writeInitCVars) ==
    \/ ("ReadOnly" \in cvar.flags /\ ~writeRomCVars)
    \/ ("InitOnly" \in cvar.flags /\ ~writeInitCVars)

SetStringValueIgnoreRO(cvar, newValue, writeRomCVars, writeInitCVars) ==
    IF IgnoreRORefused(cvar, writeRomCVars, writeInitCVars) THEN Failed(cvar)
    ELSE LET r == CvarSetString(cvar.type, cvar.currentValue, newValue, RangeArg(cvar))
         IN  IF r.ok THEN [ok |-> TRUE, cvar |-> [cvar EXCEPT !.currentValue = r.val]]
             ELSE Failed(cvar)

SetDefaultValue(cvar) ==
    IF ~IsWritable(cvar) THEN Failed(cvar)
    ELSE [ok |-> TRUE, cvar |-> SetModified([cvar EXCEPT !.currentValue = cvar.defaultValue])]

SetDefaultValueIgnoreRO(cvar, writeRomCVars, writeInitCVars) ==
    IF IgnoreRORefused(cvar, writeRomCVars, writeInitCVars) THEN Failed(cvar)
    ELSE [ok |-> TRUE, cvar |-> [cvar EXCEPT !.currentValue = cvar.defaultValue]]

\* CVarImpl::getStringValue.
CVarGetStringValue(cvar) == CvarToString(cvar.type, cvar.currentValue, cvar.numberFormat)

-----------------------------------------------------------------------------
(* class CVarManagerImpl (cfg.cpp:2380-2790): operators on the registry.    *)

\* A faulty linkWithKey that puts the node at the end of the chain.
LinkWithKeyAtTail(table, node) == table \o << [hashKey |-> HashOf(node.name)] @@ node >>

\* LinkedHashTable::linkWithKey: the node gets the hash of its key and becomes
\* the head of the chain.
LinkWithKey(table, node) == << [hashKey |-> HashOf(node.name)] @@ node >> \o table

\* LinkedHashTable::unlinkByKey: the first node of the chain with the hash of
\* the key leaves the table.
RECURSIVE UnlinkByKey(_, _)
UnlinkByKey(table, key) ==
    IF table = << >> THEN << >>
    ELSE IF Head(table).hashKey = HashOf(key) THEN Tail(table)
    ELSE << Head(table) >> \o UnlinkByKey(Tail(table), key)

\* The effect of a member call through the CVar pointer found in the table.
UpdateEntry(table, cvar) ==
    [k \in 1..Len(table) |-> IF table[k].name = cvar.name THEN cvar ELSE table[k]]

\* CVarManagerImpl::validateCVarRegistration.
ValidateCVarRegistration(table, name) ==
    /\ name # << >>
    /\ IsValidCVarName(name)
    /\ FindByKey(table, name) = NoEntry

\* registerCVarBool / registerCVarInt / registerCVarString: the init value is
\* stored as given.  Result: the table.
RegisterCVar(table, name, type, flags, initValue, valueRange) ==
    IF ~ValidateCVarRegistration(table, name) THEN table
    ELSE LinkWithKey(table, NewCVar(name, type, flags, initValue, valueRange))

\* CVarManagerImpl::internalSetStringValue.
InternalSetStringValue(cvar, value, allowRom, allowInit) ==
    IF ~IsWritable(cvar) /\ (allowRom \/ allowInit)
    THEN SetStringValueIgnoreRO(cvar, value, allowRom, allowInit)
    ELSE SetStringValue(cvar, value)

\* CVarManagerImpl::internalSetDefaultValue.
InternalSetDefaultValue(cvar, allowRom, allowInit) ==
    IF ~IsWritable(cvar) /\ (allowRom \/ allowInit)
    THEN SetDefaultValueIgnoreRO(cvar, allowRom, allowInit)
    ELSE SetDefaultValue(cvar)

\* The enumeration callback of cmdSaveConfig applied to the whole chain: every
\* variable has its Modified flag cleared, persistent or not.
SaveConfigClear(table) == [k \in 1..Len(table) |-> ClearModified(table[k])]

PersistentNames(table) == {table[k].name : k \in {j \in 1..Len(table) : IsPersistent(table[j])}}

ModifiedNames(table) == {table[k].name : k \in {j \in 1..Len(table) : IsModified(table[j])}}

-----------------------------------------------------------------------------
(* CommandManagerImpl::expandCVar (cfg.cpp:4639).  str[i] is the '$'.      *)
(* Result: ok, the index of the closing ')' and the destination text.      *)

RECURSIVE ExpandCVar(_, _, _, _, _, _)
RECURSIVE ExpandLoop(_, _, _, _, _, _)

\* The for loop of expandCVar: j is the read index, par the parenthesis count,
\* varName the name collected so far.  Result: [ok, j, par, varName].
ExpandLoop(cvars, str, j, par, varName, depth) ==
    LET c == CharAt(str, j) IN
    IF c = NUL \/ c = "\n" \/ c = CommandTextSeparator
    THEN [ok |-> TRUE, j |-> j, par |-> par, varName |-> varName]
    ELSE IF c = "(" THEN ExpandLoop(cvars, str, j + 1, par + 1, varName, depth)
    ELSE IF c = ")" THEN [ok |-> TRUE, j |-> j, par |-> par - 1, varName |-> varName]
    ELSE IF c = "$" /\ CharAt(str, j + 1) = "("
         THEN IF depth = MaxRecursionDepth
              THEN [ok |-> FALSE, j |-> j, par |-> par, varName |-> varName]
              ELSE LET r == ExpandCVar(cvars, str, j, varName, MaxCommandArgStrLength, depth + 1)
                   IN  IF ~r.ok
                       THEN [ok |-> FALSE, j |-> j, par |-> par, varName |-> varName]
                       ELSE ExpandLoop(cvars, str, r.i + 1, par, r.dest, depth)
    ELSE IF ~IsWhitespace(c)
         THEN IF Len(varName) = MaxCommandArgStrLength
              THEN [ok |-> FALSE, j |-> j, par |-> par, varName |-> varName]
              ELSE ExpandLoop(cvars, str, j + 1, par, Append(varName, c), depth)
    ELSE ExpandLoop(cvars, str, j + 1, par, varName, depth)

ExpandCVar(cvars, str, i, dest, destSize, depth) ==
    LET l    == ExpandLoop(cvars, str, i + 1, 0, << >>, depth)
        cvar == FindByKey(cvars, l.varName)
        fail == [ok |-> FALSE, i |-> i, dest |-> dest]
    IN  IF ~l.ok THEN fail
        ELSE IF l.par # 0 THEN fail
        ELSE IF Len(l.varName) = 0 THEN fail
        ELSE IF ~IsValidCVarName(l.varName) THEN fail
        ELSE IF cvar = NoEntry THEN fail
        ELSE [ok   |-> TRUE,
              i    |-> l.j,
              dest |-> dest \o CopyString(destSize - Len(dest), CVarGetStringValue(cvar))]

-----------------------------------------------------------------------------
(* CommandManagerImpl::extractNextCommand (cfg.cpp:4507).  str is the text, *)
(* start the 1-based index of *outStr.  Result:                             *)
(*   [found, dest, next, overflowed, done]                                  *)
(* where dest is the command text copied to destBuf, next the index the     *)
(* pointer is left at and done the loop's flag: the command was ended by a  *)
(* terminator, which is then the character at next - 1.                     *)

\* Quote bookkeeping shared by the splitter and the tokenizer: the state is
\* [quoteCount, quoted, singleQuote].
QuoteStart == [quoteCount |-> 0, quoted |-> FALSE, singleQuote |-> FALSE]

OnDoubleQuote(q) ==
    [q EXCEPT !.quoteCount = @ + 1, !.quoted = ((q.quoteCount + 1) % 2 = 1)]

OnSingleQuote(q) ==
    IF ~q.quoted
    THEN [quoteCount |-> q.quoteCount + 1, quoted |-> ((q.quoteCount + 1) % 2 = 1),
          singleQuote |-> TRUE]
    ELSE IF q.singleQuote
    THEN [quoteCount |-> q.quoteCount + 1, quoted |-> ((q.quoteCount + 1) % 2 = 1),
          singleQuote |-> FALSE]
    ELSE q

\* The first loop: leading whitespace and separators are skipped.
RECURSIVE SkipLeading(_, _)
SkipLeading(str, i) ==
    IF CharAt(str, i) # NUL /\ (IsWhitespace(str[i]) \/ str[i] = CommandTextSeparator)
    THEN SkipLeading(str, i + 1)
    ELSE i

\* "Skip the rest of the broken command".
RECURSIVE SkipBroken(_, _)
SkipBroken(str, i) ==
    IF CharAt(str, i) \notin {NUL, "\n", CommandTextSeparator}
    THEN SkipBroken(str, i + 1)
    ELSE i

\* The main loop.  Entered with done = FALSE; it returns as soon as done is
\* set, after the "++str" of that iteration.  loc holds the locals of the
\* loop: [dest, q, backslash], dest being destBuf[0 .. charsCopied-1], q the
\* quote state and backslash backslashFollowedByNewline.
RECURSIVE ExtractLoop(_, _, _, _, _)
ExtractLoop(cvars, str, i, loc, destSize) ==
    LET chr == CharAt(str, i) IN
    IF chr = NUL \/ Len(loc.dest) >= destSize
    THEN [dest |-> loc.dest, next |-> i, overflowed |-> FALSE, done |-> FALSE]
    ELSE IF chr = "\r" THEN ExtractLoop(cvars, str, i + 1, loc, destSize)
    ELSE IF chr = "\\"
    THEN ExtractLoop(cvars, str, i + 1, [loc EXCEPT !.backslash = TRUE], destSize)
    ELSE IF chr = "$" /\ CharAt(str, i + 1) = "("
    THEN LET r == ExpandCVar(cvars, str, i, loc.dest, destSize, 1)
         IN  IF r.ok
             THEN ExtractLoop(cvars, str, r.i + 1, [loc EXCEPT !.dest = r.dest], destSize)
             ELSE [dest |-> loc.dest, next |-> SkipBroken(str, i) + 1, overflowed |-> TRUE,
                   done |-> TRUE]
    ELSE LET q2   == IF chr = "\"" THEN OnDoubleQuote(loc.q)
                     ELSE IF chr = "'" THEN OnSingleQuote(loc.q)
                     ELSE loc.q
             done == IF chr = "\n" THEN ~loc.backslash /\ ~loc.q.quoted
                     ELSE IF chr = CommandTextSeparator THEN ~loc.q.quoted
                     ELSE FALSE
             b2   == IF chr = "\n" THEN FALSE
                     ELSE IF loc.backslash /\ ~(chr = " " \/ chr = "\t") THEN FALSE
                     ELSE loc.backslash
         IN  IF done
             THEN [dest |-> loc.dest, next |-> i + 1, overflowed |-> FALSE, done |-> TRUE]
             ELSE ExtractLoop(cvars, str, i + 1,
                              [dest |-> Append(loc.dest, chr), q |-> q2, backslash |-> b2],
                              destSize)

\* After the loop: "destBuf[charsCopied] = '\0'", with the last character
\* given up and the overflow flagged when the destination is full.
ExtractResult(l, destSize) ==
    LET truncated == Len(l.dest) = destSize
        dest      == IF truncated THEN SubSeq(l.dest, 1, destSize - 1) ELSE l.dest
    IN  [found      |-> Len(dest) > 0,
         dest       |-> dest,
         next       |-> l.next,
         overflowed |-> l.overflowed \/ truncated,
         done       |-> l.done]

ExtractNextCommand(cvars, str, start, destSize) ==
    ExtractResult(ExtractLoop(cvars, str, SkipLeading(str, start),
                              [dest |-> << >>, q |-> QuoteStart, backslash |-> FALSE],
                              destSize),
                  destSize)

-----------------------------------------------------------------------------
(* class CommandArgs (cfg.cpp:2820-3094): the tokenizer.  Result of         *)
(* ParseArgString: [hasName, cmdName, args, crashed], where hasName is      *)
(* "cmdName != nullptr" and crashed records the memcpy with a negative      *)
(* length that appendToken makes for a token that is a lone quote.          *)

\* CommandArgs::appendToken: [ok, tok, crashed, nextTokenIndex].
AppendToken(token, nextTokenIndex, maxArgStrLength) ==
    IF nextTokenIndex + Len(token) >= maxArgStrLength
    THEN [ok |-> FALSE, tok |-> << >>, crashed |-> FALSE, nextTokenIndex |-> nextTokenIndex]
    ELSE IF token[1] \in {"\"", "'"}
    THEN IF Len(token) < 2
         THEN [ok |-> FALSE, tok |-> << >>, crashed |-> TRUE, nextTokenIndex |-> nextTokenIndex]
         ELSE [ok |-> TRUE, tok |-> SubSeq(token, 2, Len(token) - 1), crashed |-> FALSE,
               nextTokenIndex |-> nextTokenIndex + (Len(token) - 2) + 1]
    ELSE [ok |-> TRUE, tok |-> token, crashed |-> FALSE,
          nextTokenIndex |-> nextTokenIndex + Len(token) + 1]

\* maxArgStrLength and maxArguments are the sizes of tokenizedArgStr and of
\* argStrings.
ArgsStart == [hasName |-> FALSE, cmdName |-> << >>, args |-> << >>, crashed |-> FALSE,
              raw |-> << >>,
              firstArg |-> TRUE, nextTokenIndex |-> 0, done |-> FALSE,
              maxArgStrLength |-> MaxCommandArgStrLength,
              maxArguments |-> MaxCommandArguments]

\* The token [argStart, argEnd) is appended and becomes the command name or
\* the next argument (addArgString).
\* raw lists the tokens stored, as they stand in the text.
TakeToken(a, token) ==
    LET t == AppendToken(token, a.nextTokenIndex, a.maxArgStrLength) IN
    IF t.crashed THEN [a EXCEPT !.crashed = TRUE, !.done = TRUE]
    ELSE IF a.firstArg
    THEN [a EXCEPT !.hasName = t.ok, !.cmdName = t.tok, !.firstArg = FALSE,
                   !.nextTokenIndex = t.nextTokenIndex,
                   !.raw = IF t.ok THEN Append(@, token) ELSE @]
    ELSE IF ~t.ok \/ Len(a.args) = a.maxArguments
    THEN [a EXCEPT !.done = TRUE, !.nextTokenIndex = t.nextTokenIndex]
    ELSE [a EXCEPT !.args = Append(@, t.tok), !.nextTokenIndex = t.nextTokenIndex,
                   !.raw = Append(@, token)]

RECURSIVE ParseLoop(_, _, _, _, _)
ParseLoop(argStr, i, q, argStart, a) ==
    LET chr == CharAt(argStr, i) IN
    IF chr = NUL \/ a.done
    THEN IF argStart # 0 /\ ~a.crashed
         THEN TakeToken(a, SubSeq(argStr, argStart, i - 1))
         ELSE a
    ELSE IF chr = "\""
    THEN ParseLoop(argStr, i + 1, OnDoubleQuote(q), IF argStart = 0 THEN i ELSE argStart, a)
    ELSE IF chr = "'"
    THEN ParseLoop(argStr, i + 1, OnSingleQuote(q), IF argStart = 0 THEN i ELSE argStart, a)
    ELSE IF IsWhitespace(chr)
    THEN IF ~q.quoted /\ argStart # 0
         THEN ParseLoop(argStr, i + 1, q, 0, TakeToken(a, SubSeq(argStr, argStart, i - 1)))
         ELSE ParseLoop(argStr, i + 1, q, argStart, a)
    ELSE ParseLoop(argStr, i + 1, q, IF argStart = 0 THEN i ELSE argStart, a)

ParseArgString(argStr) == ParseLoop(argStr, 1, QuoteStart, 0, ArgsStart)

-----------------------------------------------------------------------------
(* class CommandManagerImpl: the execution entry points (cfg.cpp:4149-4505). *)
(* A call is evaluated as a whole.  env holds what the call only reads:      *)
(* [cmds, cvars, disabled].  st is what it changes or reports:               *)
(*   buf      - cmdBuffer[0 .. cmdBufferUsed-1]                              *)
(*   aborted  - a failed CFG_ASSERT or invalid access ended the process      *)
(*   trace    - one entry per execTokenized call, in call order              *)
(*   overflow - an extracted command was flagged overflowed                  *)
(*   broken   - an extraction copied nothing and was flagged overflowed      *)
(*   limit    - MaxReentrantCommands was reached                             *)
(*   rejected - an execInsert / execAppend found the buffer full             *)

\* A registered command: plain handlers are user callbacks without an effect
\* on the manager; an alias carries execMode and targetCommand.
NewCommand(name, flags, minArgs, maxArgs) ==
    [name |-> name, kind |-> "command", flags |-> flags, minArgs |-> minArgs,
     maxArgs |-> maxArgs, execMode |-> "None", targetCommand |-> << >>]

\* CommandImplAlias constructor: flags 0, minArgs 0, maxArgs 0.
NewAlias(name, targetCommand, execMode) ==
    [name |-> name, kind |-> "alias", flags |-> {}, minArgs |-> 0,
     maxArgs |-> 0, execMode |-> execMode, targetCommand |-> targetCommand]

\* CommandImplBase::isAlias.
IsAlias(cmd) == cmd.kind = "alias"

\* The overflow test with > in the place of >=.
BufferDepletedLate(buf, str) == Len(buf) + (Len(str) + 1) > CommandBufferSize

\* The overflow test of execInsert / execAppend.
BufferDepleted(buf, str) == Len(buf) + (Len(str) + 1) >= CommandBufferSize

\* Faulty variants of the operators below; the properties of the buffer are
\* shown to tell each of them from the real operator.
ExecAppendInFront(buf, str) ==
    IF str = << >> THEN buf
    ELSE IF BufferDepleted(buf, str) THEN buf
    ELSE str \o << CommandTextSeparator >> \o buf

ShiftBufferTooFar(buf, charsConsumed) == DropFirst(buf, charsConsumed + 1)

ShiftBufferSkipped(buf, charsConsumed) == buf

ReentrantLimitLate(commandsExecuted) == commandsExecuted = MaxReentrantCommands + 1

ExecInsert(buf, str) ==
    IF str = << >> THEN buf
    ELSE IF BufferDepleted(buf, str) THEN buf
    ELSE str \o << CommandTextSeparator >> \o buf

ExecAppend(buf, str) ==
    IF str = << >> THEN buf
    ELSE IF BufferDepleted(buf, str) THEN buf
    ELSE buf \o str \o << CommandTextSeparator >>

\* execBufferedCommands: the memmove that removes the consumed characters.
ShiftBuffer(buf, charsConsumed) == DropFirst(buf, charsConsumed)

\* execBufferedCommands: "commandsExecuted == MaxReentrantCommands".
ReentrantLimitHit(commandsExecuted) == commandsExecuted = MaxReentrantCommands

\* execTokenized without the test of disabledCmdFlags.
DispatchOutcomeMaskIgnored(env, a) ==
    LET cmd == FindByKey(env.cmds, a.cmdName) IN
    IF a.crashed \/ ~a.hasName THEN "abort"
    ELSE IF Len(a.cmdName) >= MaxCommandNameLength THEN "nameTooLong"
    ELSE IF cmd = NoEntry THEN "notFound"
    ELSE IF cmd.minArgs >= 0 /\ Len(a.args) < cmd.minArgs THEN "badArgs"
    ELSE IF cmd.maxArgs >= 0 /\ Len(a.args) > cmd.maxArgs THEN "badArgs"
    ELSE "executed"

\* execTokenized: the checks before the handler call, as the outcome name.
DispatchOutcome(env, a) ==
    LET cmd == FindByKey(env.cmds, a.cmdName) IN
    IF a.crashed \/ ~a.hasName THEN "abort"
    ELSE IF Len(a.cmdName) >= MaxCommandNameLength THEN "nameTooLong"
    ELSE IF cmd = NoEntry THEN "notFound"
    ELSE IF env.disabled # {} /\ env.disabled = DisableAll THEN "disabled"
    ELSE IF env.disabled # {} /\ cmd.flags \cap env.disabled # {} THEN "disabled"
    ELSE IF cmd.minArgs >= 0 /\ Len(a.args) < cmd.minArgs THEN "badArgs"
    ELSE IF cmd.maxArgs >= 0 /\ Len(a.args) > cmd.maxArgs THEN "badArgs"
    ELSE "executed"

RECURSIVE ExecTokenized(_, _, _, _, _, _, _)
RECURSIVE ExecNowLoop(_, _, _, _, _)
RECURSIVE Execute(_, _, _, _, _)

\* execNow: after execTokenized returned st2, the loop goes on at next.
ExecNowNext(env, st2, str, next, depth) ==
    IF st2.aborted THEN st2 ELSE ExecNowLoop(env, st2, str, next, depth)

\* execNow: one turn of the loop, r being what extractNextCommand returned.
ExecNowStep(env, st, str, depth, r) ==
    IF ~r.found THEN [st EXCEPT !.broken = @ \/ r.overflowed]
    ELSE IF r.overflowed THEN [st EXCEPT !.overflow = TRUE]
    ELSE ExecNowNext(env, ExecTokenized(env, st, r.dest, "now", st.buf, 0, depth),
                     str, r.next, depth)

\* execNow: the loop over the commands of str, from index i.
ExecNowLoop(env, st, str, i, depth) ==
    ExecNowStep(env, st, str, depth,
                ExtractNextCommand(env.cvars, str, i, MaxCommandArgStrLength))

ExecNow(env, st, str, depth) ==
    IF str = << >> THEN st
    ELSE IF depth > MaxCallDepth THEN [st EXCEPT !.aborted = TRUE]
    ELSE ExecNowLoop(env, st, str, 1, depth)

\* CommandManagerImpl::execute.
Execute(env, st, execMode, str, depth) ==
    CASE execMode = "Immediate" -> ExecNow(env, st, str, depth + 1)
      [] execMode = "Insert" ->
           [st EXCEPT !.buf = ExecInsert(@, str),
                      !.rejected = @ \/ (str # << >> /\ BufferDepleted(st.buf, str))]
      [] execMode = "Append" ->
           [st EXCEPT !.buf = ExecAppend(@, str),
                      !.rejected = @ \/ (str # << >> /\ BufferDepleted(st.buf, str))]

\* CommandImplBase::onExecute / CommandImplAlias::onExecute.
OnExecute(env, st, cmd, depth) ==
    IF cmd.kind = "alias" THEN Execute(env, st, cmd.execMode, cmd.targetCommand, depth)
    ELSE st

\* execTokenized, the handler has returned st2: entry k of the trace gets the
\* buffer the handler left.
HandlerReturn(st2, k) == [st2 EXCEPT !.trace[k].after = st2.buf]

\* execTokenized(cmdArgs), a being the tokenized command.
Dispatch(env, st, a, cmdStr, via, before, consumed, depth) ==
    LET outcome == DispatchOutcome(env, a)
        entry   == [text |-> cmdStr, name |-> a.cmdName, via |-> via, depth |-> depth,
                    before |-> before, consumed |-> consumed,
                    atHandler |-> st.buf, after |-> st.buf, outcome |-> outcome]
        st1     == [st EXCEPT !.trace = Append(@, entry)]
    IN  IF outcome = "abort" THEN [st1 EXCEPT !.aborted = TRUE]
        ELSE IF outcome # "executed" THEN st1
        ELSE HandlerReturn(OnExecute(env, st1, FindByKey(env.cmds, a.cmdName), depth),
                           Len(st.trace) + 1)

\* CommandArgs cmdArgs(tempBuffer); execTokenized(cmdArgs): tokenize, check,
\* call the handler.  The trace entry records the buffer before the command
\* was extracted, the characters consumed, and the buffer at handler entry
\* and at handler return.
ExecTokenized(env, st, cmdStr, via, before, consumed, depth) ==
    Dispatch(env, st, ParseArgString(cmdStr), cmdStr, via, before, consumed, depth)

RECURSIVE ExecBufferedLoop(_, _, _, _)

\* A faulty end of the loop body: the call that stops at the caller's max
\* throws the rest of the buffer away.
ExecBufferedNextDropsRest(env, st2, n, max) ==
    IF st2.aborted THEN [st |-> st2, ret |-> n]
    ELSE IF ReentrantLimitHit(n)
    THEN [st |-> [st2 EXCEPT !.buf = << >>, !.limit = TRUE], ret |-> n]
    ELSE IF max # ExecAll /\ n = max
    THEN [st |-> [st2 EXCEPT !.buf = << >>], ret |-> n]
    ELSE ExecBufferedLoop(env, st2, n, max)

\* execBufferedCommands: after execTokenized returned st2, n commands
\* executed: the limit checks at the end of the loop body.
ExecBufferedNext(env, st2, n, max) ==
    IF st2.aborted THEN [st |-> st2, ret |-> n]
    ELSE IF ReentrantLimitHit(n)
    THEN [st |-> [st2 EXCEPT !.buf = << >>, !.limit = TRUE], ret |-> n]
    ELSE IF max # ExecAll /\ n = max
    THEN [st |-> st2, ret |-> n]
    ELSE ExecBufferedLoop(env, st2, n, max)

\* execBufferedCommands: one turn of the loop, r being what
\* extractNextCommand returned, n commands executed so far.
ExecBufferedStep(env, st, n, max, r) ==
    IF ~r.found
    THEN [st  |-> IF CharAt(st.buf, r.next) = NUL
                  THEN [st EXCEPT !.buf = << >>, !.broken = @ \/ r.overflowed]
                  ELSE [st EXCEPT !.broken = @ \/ r.overflowed],
          ret |-> n]
    ELSE IF r.overflowed
    THEN [st |-> [st EXCEPT !.buf = << >>, !.overflow = TRUE], ret |-> n]
    ELSE ExecBufferedNext(env,
                          ExecTokenized(env,
                                        [st EXCEPT !.buf = ShiftBuffer(st.buf, r.next - 1)],
                                        r.dest, "buffer", st.buf, r.next - 1, 0),
                          n + 1, max)

\* execBufferedCommands: the while loop, n commands executed so far.
ExecBufferedLoop(env, st, n, max) ==
    ExecBufferedStep(env, st, n, max,
                     ExtractNextCommand(env.cvars, st.buf, 1, MaxCommandArgStrLength))

ExecBufferedCommands(env, st, maxCommandsToExec) ==
    IF st.buf = << >> \/ maxCommandsToExec = 0 THEN [st |-> st, ret |-> 0]
    ELSE ExecBufferedLoop(env, st, 0, maxCommandsToExec)

-----------------------------------------------------------------------------
(* The command pipeline as a state machine.  The application has registered *)
(* its commands, aliases and the CVars used by $(...) expansion; the steps  *)
(* are the calls a client makes on the CommandManager.                      *)

\* Command texts the clients submit with execAppend.
AppendMenu ==
    { << "a" >>,                                      \* plain command
      << "b", ";", "b" >>,                            \* two appending aliases
      << "i" >>,                                      \* inserting alias
      << "r" >>,                                      \* alias that appends itself
      << "m" >>,                                      \* immediate alias
      << "x" >>,                                      \* not registered
      << "a", "a", "a" >>,                            \* name too long
      << "p", " ", "a" >>,                            \* more arguments than p takes
      << "a", " ", "b", " ", "c" >>,                  \* more than MaxCommandArguments
      << "a", " ", "\"" >>,                           \* open quotation
      << "$", "(", "v", ")" >>,                       \* expands to a
      << "$", "(", "u", ")" >>,                       \* undefined CVar, nothing copied
      << "$", "(", ")" >>,                            \* no CVar name, nothing copied
      << "a", "$", "(", "u", ")" >>,                  \* undefined CVar after text
      << "a", "a", "a", "a", "a" >>,                  \* longer than a command may be
      << "\\", " " >> }                               \* continuation and blank

\* Command texts the clients submit with execInsert.
InsertMenu == { << "a" >>, << "b" >>, << "x" >> }

\* Command lines the clients run with execNow: each failure kind followed by
\* a well-formed command.
NowMenu ==
    { << "a", ";", "p" >>,
      << "i", ";", "a" >>,
      << "m", ";", "a" >>,
      << "x", ";", "a" >>,
      << "a", " ", "b", " ", "c", ";", "p" >>,
      << "a", " ", "\"", ";", "p" >>,
      << "p", ";", "$", "(", "u", ")", ";", "a" >>,
      << "p", ";", "a", " ", "$", "(", "u", ")", ";", "a" >>,
      << "p", ";", "a", "a", "a", "a", "a", "a", ";", "a" >>,
      << "a", " ", "\"" >>,
      << "\\", " ", ";", "a" >> }

MaxMenu == {0, 1, 2, ExecAll}

\* registerCommand / createCommandAlias calls of the application start-up.
StartupCommands ==
    LinkWithKey(LinkWithKey(LinkWithKey(LinkWithKey(LinkWithKey(LinkWithKey(<< >>,
        NewCommand(<< "a" >>, {}, 0 - 1, 0 - 1)),
        NewCommand(<< "p" >>, {1}, 0, 0)),
        NewAlias(<< "b" >>, << "p" >>, "Append")),
        NewAlias(<< "i" >>, << "p" >>, "Insert")),
        NewAlias(<< "r" >>, << "r" >>, "Append")),
        NewAlias(<< "m" >>, << "p" >>, "Immediate"))

\* registerCVarString("v", "", 0, "a", nullptr) of the application start-up.
StartupCVars ==
    RegisterCVar(<< >>, << "v" >>, "String", {}, << "a" >>, AllowedStrings(FALSE, << >>))

IdleExec == [op |-> "none", arg |-> << >>, max |-> 0, pre |-> << >>, ret |-> 0,
             trace |-> << >>, overflow |-> FALSE, broken |-> FALSE, limit |-> FALSE,
             rejected |-> FALSE]

NoSplitResult == [found |-> FALSE, dest |-> << >>, next |-> 0, overflowed |-> FALSE,
                  done |-> FALSE]

IdleSplit == [str |-> << >>, applied |-> FALSE, res |-> NoSplitResult]

IdleCVarOp == [op |-> "none", name |-> << >>, ok |-> FALSE, saved |-> FALSE]

IdleConv == [kind |-> "none", applied |-> FALSE]

\* cfg.hpp:1095  LineBufferMaxSize = 2048
LineBufferMaxSize == 4

\* SimpleCommandTerminal constructor: clearArray(lineBuffer), both indexes 0.
NewLineEdit ==
    [lineBuffer |-> [i \in 0..(LineBufferMaxSize - 1) |-> NUL],
     lineBufferUsed |-> 0, lineBufferInsertionPos |-> 0,
     op |-> "none", handled |-> FALSE, aborted |-> FALSE]

IdleStartup == [done |-> FALSE, argv |-> << >>, ranNow |-> << >>, appended |-> << >>,
                op |-> "none", name |-> << >>, ok |-> FALSE]

IdleName == [name |-> << >>, applied |-> FALSE, valid |-> FALSE]

IdleTok == [str |-> << >>, op |-> "none", args |-> << >>, partialArg |-> << >>,
            cuts |-> {}]

\* SimpleCommandTerminal::CmdHistoryMaxSize.
CmdHistoryMaxSize == 3

\* The history of a new terminal: every slot an empty string.
NewHistory ==
    [cmdHistory |-> [i \in 0..(CmdHistoryMaxSize - 1) |-> << >>],
     indexCmdHistory |-> 0, currCmdInHistory |-> 0,
     op |-> "none", cmd |-> << >>,
     before |-> [i \in 0..(CmdHistoryMaxSize - 1) |-> << >>], usedBefore |-> 0]

\* SimpleCommandTerminal constructor: the fields of [TAB] completion.  The
\* rest records the last key handled: the key, the slots of cmdHistory it
\* read and the string it got, whether the line was stored in the history
\* and whether it named something to run, whether matches were listed and
\* how many there were.
NewTerm ==
    [firstAutoCompletionTry |-> TRUE, nextDisplayedCompletionMatch |-> 0,
     oldLineBufferUsed |-> 0, completionMatchCount |-> 0, partialStrLength |-> 0,
     completionMatches |-> << >>,
     key |-> "none", reads |-> {}, cmd |-> << >>,
     stored |-> FALSE, ran |-> FALSE, listed |-> FALSE, matches |-> 0]

\* UnixTerminal::InputBufferSize = 2048
InputBufferSize == 3

\* UnixTerminal constructor: clearArray(inputBuffer), the index 0, the input
\* thread about to start its loop.  thread is where the input thread stands
\* and slot the index it took; call is where a getInput call stands and
\* index the one it took.  typed are the keys sysWaitChar returned and
\* returned what getInput read from inputBuffer, both in order; early tells
\* that getInput has read a slot the input thread had taken and not yet
\* written.
NewInput ==
    [inputBuffer |-> [i \in 0..(InputBufferSize - 1) |-> 0],
     inputBufferInsertionPos |-> 0,
     thread |-> "loop", slot |-> 0,
     call |-> "idle", index |-> 0,
     typed |-> << >>, returned |-> << >>, early |-> FALSE]

\* No config file has been written.
NoConfigFile == [exists |-> FALSE, lines |-> << >>, cvars |-> << >>, cmds |-> << >>,
                 op |-> "none", ran |-> FALSE, prev |-> "none"]

IdleRegOp == [op |-> "none", name |-> << >>, ok |-> FALSE]

IdleTable == [nodes |-> << >>, op |-> "none", key |-> << >>, found |-> NoEntry]

\* The state of the parts a specification does not exercise.
RegIoIdle ==
    /\ hashTable = IdleTable
    /\ cmdAliasCount = Len(SelectSeq(registeredCommands, IsAlias))
    /\ lastRegOp = IdleRegOp
    /\ removedCVars = {}
    /\ lineEdit = NewLineEdit
    /\ cfgFile = NoConfigFile

MoreIdle ==
    /\ RegIoIdle
    /\ input = NewInput
    /\ term = NewTerm
    /\ tokIn = IdleTok
    /\ startup = IdleStartup
    /\ history = NewHistory
    /\ nameIn = IdleName

InitCmd ==
    /\ cmdBuffer = << >>
    /\ registeredCommands = StartupCommands
    /\ disabledCmdFlags = {}
    /\ aborted = FALSE
    /\ lastExec = IdleExec
    /\ registeredCVars = StartupCVars
    /\ allowWritingRomCVars = FALSE
    /\ allowWritingInitCVars = FALSE
    /\ lastCVarOp = IdleCVarOp
    /\ splitIn = IdleSplit
    /\ convIn = IdleConv
    /\ MoreIdle

Env == [cmds |-> registeredCommands, cvars |-> registeredCVars, disabled |-> disabledCmdFlags]

CallStart == [buf |-> cmdBuffer, aborted |-> FALSE, trace |-> << >>,
              overflow |-> FALSE, broken |-> FALSE, limit |-> FALSE, rejected |-> FALSE]

Observe(op, arg, max, st, ret) ==
    [op |-> op, arg |-> arg, max |-> max, pre |-> cmdBuffer, ret |-> ret,
     trace |-> st.trace, overflow |-> st.overflow, broken |-> st.broken,
     limit |-> st.limit, rejected |-> st.rejected]

\* The call has returned r = [st, ret]: the manager's fields and the record
\* of the call.
Returned(op, arg, max, r) ==
    /\ cmdBuffer' = r.st.buf
    /\ aborted' = r.st.aborted
    /\ lastExec' = Observe(op, arg, max, r.st, r.ret)
    /\ UNCHANGED << registeredCommands, disabledCmdFlags, cvarVars, splitIn, convIn, moreVars >>

CallExecAppend(str) ==
    /\ ~aborted
    /\ Returned("execAppend", str, 0,
                [st |-> Execute(Env, CallStart, "Append", str, 0), ret |-> 0])

CallExecInsert(str) ==
    /\ ~aborted
    /\ Returned("execInsert", str, 0,
                [st |-> Execute(Env, CallStart, "Insert", str, 0), ret |-> 0])

CallExecNow(str) ==
    /\ ~aborted
    /\ Returned("execNow", str, 0, [st |-> ExecNow(Env, CallStart, str, 0), ret |-> 0])

CallExecBufferedCommands(maxCommandsToExec) ==
    /\ ~aborted
    /\ Returned("execBufferedCommands", << >>, maxCommandsToExec,
                ExecBufferedCommands(Env, CallStart, maxCommandsToExec))

NextCmd ==
    \/ \E str \in AppendMenu : CallExecAppend(str)
    \/ \E str \in InsertMenu : CallExecInsert(str)
    \/ \E str \in NowMenu : CallExecNow(str)
    \/ \E m \in MaxMenu : CallExecBufferedCommands(m)

SpecCmd == InitCmd /\ [][NextCmd]_vars

-----------------------------------------------------------------------------
(* Properties of the command buffer (SpecCmd).                              *)

IsBufferedCall == lastExec.op = "execBufferedCommands" /\ ~aborted

\* The commands the call dispatched straight from the buffer, in order.
BufferTrace == SelectSeq(lastExec.trace, LAMBDA e : e.via = "buffer")

TextsOf(tr) == [k \in 1..Len(tr) |-> tr[k].text]

\* Leading-separator compaction.
Compact(buf) == DropFirst(buf, SkipLeading(buf, 1) - 1)

\* The command records of a text, as the splitter delimits them: the text of
\* each record and whether it was extracted without an overflow flag.
RECURSIVE RecordsOf(_, _)
RecordsOf(str, i) ==
    IF i > Len(str) THEN << >>
    ELSE LET r == ExtractNextCommand(registeredCVars, str, i, MaxCommandArgStrLength)
         IN  << [text |-> r.dest, good |-> r.found /\ ~r.overflowed, next |-> r.next] >>
             \o RecordsOf(str, r.next)

\* The text left when the first n records have been removed.
DropRecords(str, n) ==
    LET recs == RecordsOf(str, 1) IN
    IF n = 0 THEN str
    ELSE IF n > Len(recs) THEN << >>
    ELSE DropFirst(str, recs[n].next - 1)

\* No handler of the call changed the buffer.
NoHandlerAdditions == \A k \in 1..Len(lastExec.trace) :
                          lastExec.trace[k].after = lastExec.trace[k].atHandler

\* C1 as stated: whenever execBufferedCommands(max) returns N, exactly N
\* commands were dispatched and the buffer afterwards is the pre-call buffer
\* minus its first N records (modulo leading-separator compaction), for any
\* buffer content and any max.
C1_AsStated ==
    IsBufferedCall =>
        /\ Len(BufferTrace) = lastExec.ret
        /\ Compact(cmdBuffer) = Compact(DropRecords(lastExec.pre, lastExec.ret))

\* C1 amended: N commands were dispatched from the buffer.  When no handler
\* added text, no extracted command was flagged overflowed and the reentrancy
\* limit was not reached, the buffer is the pre-call buffer minus its first N
\* records, except that a command whose extraction fails before any character
\* is copied ends the call and, when it is the last text, empties the buffer.
\* When an extracted command is flagged overflowed or the limit is reached,
\* the buffer is empty.
C1_BufferAfterCall ==
    IsBufferedCall =>
        /\ Len(BufferTrace) = lastExec.ret
        /\ (NoHandlerAdditions /\ ~lastExec.overflow /\ ~lastExec.limit) =>
               \/ Compact(cmdBuffer) = Compact(DropRecords(lastExec.pre, lastExec.ret))
               \/ lastExec.broken /\ cmdBuffer = << >>
        /\ (lastExec.overflow \/ lastExec.limit) => cmdBuffer = << >>

C1_Witness ==
    /\ IsBufferedCall
    /\ lastExec.ret = 2
    /\ NoHandlerAdditions /\ ~lastExec.overflow /\ ~lastExec.broken /\ ~lastExec.limit
    /\ cmdBuffer # << >>

\* A text of bare command names and separators.
IsSimpleText(str) == \A k \in 1..Len(str) : IsLetter(str[k]) \/ str[k] = CommandTextSeparator

\* The order FIFO dispatch prescribes: the head of the queue runs; what an
\* Append alias adds goes behind everything queued, what an Insert alias adds
\* goes in front.
RECURSIVE FifoOrder(_, _)
FifoOrder(queue, steps) ==
    IF steps = 0 \/ queue = << >> THEN << >>
    ELSE LET cmd   == FindByKey(registeredCommands, Head(queue))
             added == IF cmd # NoEntry /\ cmd.kind = "alias"
                      THEN TextsOf(RecordsOf(cmd.targetCommand, 1))
                      ELSE << >>
             rest  == IF cmd # NoEntry /\ cmd.kind = "alias" /\ cmd.execMode = "Append"
                      THEN Tail(queue) \o added
                      ELSE IF cmd # NoEntry /\ cmd.kind = "alias" /\ cmd.execMode = "Insert"
                      THEN added \o Tail(queue)
                      ELSE Tail(queue)
         IN  << Head(queue) >> \o FifoOrder(rest, steps - 1)

\* C2: buffered commands are dispatched in buffer order; text a handler
\* appends runs after every command already queued, text a handler inserts
\* is the next text dispatched.
C2_FifoOrder ==
    ( /\ IsBufferedCall
      /\ disabledCmdFlags = {}
      /\ IsSimpleText(lastExec.pre)
      /\ ~lastExec.overflow /\ ~lastExec.limit /\ ~lastExec.rejected )
    => TextsOf(BufferTrace) = FifoOrder(TextsOf(RecordsOf(lastExec.pre, 1)), lastExec.ret)

\* execAppend("b; b") where b appends p: the order is b, b, p, p.
C2_Witness ==
    /\ IsBufferedCall
    /\ lastExec.pre = << "b", ";", "b", ";" >>
    /\ TextsOf(BufferTrace) = << << "b" >>, << "b" >>, << "p" >>, << "p" >> >>

IsInfix(part, whole) ==
    \E k \in 0..(Len(whole) - Len(part)) : SubSeq(whole, k + 1, k + Len(part)) = part

\* C3: the shift precedes the handler call.  When a handler runs, the
\* consumed text is gone and the buffer is the remainder from offset 0; what
\* the handler leaves is that remainder plus its own additions, and the next
\* command is extracted from exactly that text.
C3_ShiftBeforeHandler ==
    IsBufferedCall =>
        /\ \A k \in 1..Len(BufferTrace) :
              /\ BufferTrace[k].consumed > 0
              /\ BufferTrace[k].atHandler
                    = DropFirst(BufferTrace[k].before, BufferTrace[k].consumed)
              /\ IsInfix(BufferTrace[k].atHandler, BufferTrace[k].after)
        /\ \A k \in 1..(Len(BufferTrace) - 1) :
              BufferTrace[k + 1].before = BufferTrace[k].after

C3_Witness ==
    /\ IsBufferedCall
    /\ \E k \in 1..Len(BufferTrace) :
          /\ BufferTrace[k].atHandler # << >>
          /\ BufferTrace[k].after # BufferTrace[k].atHandler
          /\ k < Len(BufferTrace)

\* C4: one call dispatches at most MaxReentrantCommands commands from the
\* buffer; when the limit is reached the call reports it and the buffer is
\* cleared.
C4_ReentrantLimit ==
    IsBufferedCall =>
        /\ lastExec.ret <= MaxReentrantCommands
        /\ Len(BufferTrace) <= MaxReentrantCommands
        /\ lastExec.ret = MaxReentrantCommands => (lastExec.limit /\ cmdBuffer = << >>)

\* The alias r appends itself for ever.
C4_Witness ==
    /\ IsBufferedCall
    /\ lastExec.pre = << "r", ";" >>
    /\ lastExec.ret = MaxReentrantCommands
    /\ lastExec.limit
    /\ cmdBuffer = << >>

\* The commands the call dispatched itself (not the ones its handlers ran).
TopTrace == SelectSeq(lastExec.trace, LAMBDA e : e.depth = 0)

GoodTexts(recs) == TextsOf(SelectSeq(recs, LAMBDA r : r.good))

\* The records in front of the first one whose extraction failed.
RECURSIVE BeforeFailure(_)
BeforeFailure(recs) ==
    IF recs = << >> THEN << >>
    ELSE IF ~Head(recs).good THEN << >>
    ELSE << Head(recs) >> \o BeforeFailure(Tail(recs))

IsNowCall == lastExec.op = "execNow" /\ ~aborted

\* A buffered call that ran the whole buffer as it was before the call.
IsWholeBufferCall ==
    /\ IsBufferedCall
    /\ lastExec.max = ExecAll
    /\ NoHandlerAdditions
    /\ ~lastExec.limit

\* C5: a parser-level failure discards the affected command only; every
\* other well-formed command of the batch, in an execNow string or in the
\* command buffer, is still dispatched.
C5_OnlyAffectedCommandDiscarded ==
    /\ IsNowCall =>
          TextsOf(TopTrace) = GoodTexts(RecordsOf(lastExec.arg, 1))
    /\ IsWholeBufferCall =>
          TextsOf(BufferTrace) = GoodTexts(RecordsOf(lastExec.pre, 1))

\* What execNow and execBufferedCommands do instead: a command that fails in
\* the tokenizer or in the dispatcher is the only one affected and the
\* commands after it are dispatched; a command whose extraction fails (too
\* long, failed $(cvar) expansion) is discarded together with all the text
\* after it: execNow stops, execBufferedCommands empties the buffer.
FailureDiscardsRest ==
    /\ IsNowCall =>
          TextsOf(TopTrace) = TextsOf(BeforeFailure(RecordsOf(lastExec.arg, 1)))
    /\ IsWholeBufferCall =>
          /\ TextsOf(BufferTrace) = TextsOf(BeforeFailure(RecordsOf(lastExec.pre, 1)))
          /\ lastExec.overflow => cmdBuffer = << >>

\* execNow("p;a $(u);a"): p is dispatched, the last a is not.
FailureDiscardsRestReached ==
    /\ IsNowCall
    /\ lastExec.arg = << "p", ";", "a", " ", "$", "(", "u", ")", ";", "a" >>
    /\ lastExec.overflow
    /\ TextsOf(TopTrace) = << << "p" >> >>

-----------------------------------------------------------------------------
(* The splitter as a function of its input (SpecSplit): the text is drawn   *)
(* from all short strings over the characters the splitter distinguishes,  *)
(* and one call of extractNextCommand is applied to it.                     *)

MaxSplitLen == 4

SplitAlphabet == {"a", ";", "\"", "'", "\n", "\\", " "}

SplitTexts == UNION {[1..n -> SplitAlphabet] : n \in 1..MaxSplitLen}

InitSplit ==
    /\ cmdBuffer = << >>
    /\ registeredCommands = StartupCommands
    /\ disabledCmdFlags = {}
    /\ aborted = FALSE
    /\ lastExec = IdleExec
    /\ registeredCVars = StartupCVars
    /\ allowWritingRomCVars = FALSE
    /\ allowWritingInitCVars = FALSE
    /\ lastCVarOp = IdleCVarOp
    /\ splitIn \in {[str |-> t, applied |-> FALSE, res |-> NoSplitResult] : t \in SplitTexts}
    /\ convIn = IdleConv
    /\ MoreIdle

CallExtractNextCommand ==
    /\ ~splitIn.applied
    /\ splitIn' = [splitIn EXCEPT
                      !.applied = TRUE,
                      !.res = ExtractNextCommand(registeredCVars, splitIn.str, 1,
                                                 MaxCommandArgStrLength)]
    /\ UNCHANGED << cmdVars, cvarVars, convIn, moreVars >>

NextSplit == CallExtractNextCommand

SpecSplit == InitSplit /\ [][NextSplit]_vars

\* The quoted regions of the command grammar: a double-quoted region runs to
\* the next double quote, a single-quoted region to the next single quote,
\* and the other kind of quote inside a region is an ordinary character.
\* QuoteRegion is the region the character at index t lies in.
RECURSIVE QuoteRegion(_, _, _, _)
QuoteRegion(str, i, t, region) ==
    IF i >= t THEN region
    ELSE QuoteRegion(str, i + 1, t,
             IF region = "none" /\ str[i] = "\"" THEN "double"
             ELSE IF region = "none" /\ str[i] = "'" THEN "single"
             ELSE IF region = "double" /\ str[i] = "\"" THEN "none"
             ELSE IF region = "single" /\ str[i] = "'" THEN "none"
             ELSE region)

\* A newline is escaped by a backslash in front of it, blanks allowed between.
IsEscaped(str, t) ==
    \E j \in 1..(t - 1) :
        /\ str[j] = "\\"
        /\ \A k \in (j + 1)..(t - 1) : str[k] \in {" ", "\t", "\r", "\\"}

\* C6: the splitter ends a command only at an unescaped newline or at a
\* semicolon outside any quoted region; a semicolon inside a double-quoted or
\* single-quoted region never splits, whatever else the region contains.
C6_SplitOutsideQuotes ==
    (splitIn.applied /\ splitIn.res.done) =>
        LET str   == splitIn.str
            t     == splitIn.res.next - 1
            start == SkipLeading(str, 1)
        IN  \/ str[t] = "\n" /\ ~IsEscaped(str, t)
            \/ str[t] = CommandTextSeparator /\ QuoteRegion(str, start, t, "none") = "none"

-----------------------------------------------------------------------------
(* The CVar registry as a state machine (SpecCVar).  The registry starts    *)
(* empty; the steps are the registrations of the application, the calls on  *)
(* the CVar interface, the set / reset / saveConfig commands and the two    *)
(* override switches that config replay and start-up processing turn on.    *)

CVarNames == {<< "x" >>, << "y" >>}

\* Registrations the application makes: [name, type, flags, init, range].
\* The integer range stands for a range like fps in [1, 240].
RangeMin == 1

RangeMax == 3

RegistrationMenu ==
    { [name |-> << "x" >>, type |-> "Int", flags |-> {"RangeCheck"},
       init |-> 2, range |-> NumberRange(RangeMin, RangeMax)],
      [name |-> << "x" >>, type |-> "Int", flags |-> {"RangeCheck", "Persistent"},
       init |-> 5, range |-> NumberRange(RangeMin, RangeMax)],
      [name |-> << "x" >>, type |-> "Int", flags |-> {"RangeCheck", "ReadOnly"},
       init |-> 2, range |-> NumberRange(RangeMin, RangeMax)],
      [name |-> << "x" >>, type |-> "Int", flags |-> {"InitOnly", "Persistent"},
       init |-> 2, range |-> NumberRange(RangeMin, RangeMax)],
      [name |-> << "y" >>, type |-> "Bool", flags |-> {"Persistent"},
       init |-> TRUE, range |-> NumberRange(FALSE, TRUE)],
      [name |-> << "y" >>, type |-> "String", flags |-> {"RangeCheck"},
       init |-> << "1" >>,
       range |-> AllowedStrings(TRUE, << << "1" >>, << "o", "n" >> >>)],
      [name |-> << "1" >>, type |-> "Bool", flags |-> {},
       init |-> FALSE, range |-> NumberRange(FALSE, TRUE)] }

IntMenu == {2, 5}

\* Doubles, in halves: 1.5 and 3.5.
FloatMenu == {3, 7}

StringMenu == { << "1" >>, << "z" >> }

\* Creation flags of the set command.
SetFlagsMenu == { {"Persistent"} }

InitCVar ==
    /\ cmdBuffer = << >>
    /\ registeredCommands = << >>
    /\ disabledCmdFlags = {}
    /\ aborted = FALSE
    /\ lastExec = IdleExec
    /\ registeredCVars = << >>
    /\ allowWritingRomCVars = FALSE
    /\ allowWritingInitCVars = FALSE
    /\ lastCVarOp = IdleCVarOp
    /\ splitIn = IdleSplit
    /\ convIn = IdleConv
    /\ MoreIdle

CVarOp(op, name, ok) == [op |-> op, name |-> name, ok |-> ok, saved |-> FALSE]

\* registerCVarBool / registerCVarInt / registerCVarString.
CallRegisterCVar(reg) ==
    /\ registeredCVars' = RegisterCVar(registeredCVars, reg.name, reg.type, reg.flags,
                                       reg.init, reg.range)
    /\ lastCVarOp' = CVarOp("registerCVar", reg.name,
                            ValidateCVarRegistration(registeredCVars, reg.name))
    /\ UNCHANGED << cmdVars, allowWritingRomCVars, allowWritingInitCVars, splitIn, convIn, moreVars >>

\* A member call on the registered variable `name`, with result r = [ok, cvar].
MemberCall(op, name, r) ==
    /\ registeredCVars' = UpdateEntry(registeredCVars, r.cvar)
    /\ lastCVarOp' = CVarOp(op, name, r.ok)
    /\ UNCHANGED << cmdVars, allowWritingRomCVars, allowWritingInitCVars, splitIn, convIn, moreVars >>

CallSetIntValue(name, newValue) ==
    /\ FindByKey(registeredCVars, name) # NoEntry
    /\ MemberCall("setIntValue", name, SetIntValue(FindByKey(registeredCVars, name), newValue))

CallSetBoolValue(name, newValue) ==
    /\ FindByKey(registeredCVars, name) # NoEntry
    /\ MemberCall("setBoolValue", name, SetBoolValue(FindByKey(registeredCVars, name), newValue))

CallSetFloatValue(name, newValue) ==
    /\ FindByKey(registeredCVars, name) # NoEntry
    /\ MemberCall("setFloatValue", name, SetFloatValue(FindByKey(registeredCVars, name), newValue))

CallSetStringValue(name, newValue) ==
    /\ FindByKey(registeredCVars, name) # NoEntry
    /\ MemberCall("setStringValue", name, SetStringValue(FindByKey(registeredCVars, name), newValue))

CallSetDefaultValue(name) ==
    /\ FindByKey(registeredCVars, name) # NoEntry
    /\ MemberCall("setDefaultValue", name, SetDefaultValue(FindByKey(registeredCVars, name)))

\* cmdSet (cfg.cpp:6643) with arguments <name> <value> [flags]: an existing
\* variable is written through internalSetStringValue; a missing one is
\* created as a UserDefined string variable unless -nocreate is given.
CmdSet(name, value, flags, noCreate) ==
    LET cvar == FindByKey(registeredCVars, name) IN
    IF cvar # NoEntry
    THEN MemberCall("cmdSet", name,
                    InternalSetStringValue(cvar, value, allowWritingRomCVars,
                                           allowWritingInitCVars))
    ELSE /\ registeredCVars' =
               IF noCreate THEN registeredCVars
               ELSE RegisterCVar(registeredCVars, name, "String", {"UserDefined"} \cup flags,
                                 value, AllowedStrings(FALSE, << >>))
         /\ lastCVarOp' = CVarOp("cmdSetCreate", name, ~noCreate)
         /\ UNCHANGED << cmdVars, allowWritingRomCVars, allowWritingInitCVars, splitIn, convIn, moreVars >>

\* cmdReset (cfg.cpp:6532) with argument <name>.
CmdReset(name) ==
    LET cvar == FindByKey(registeredCVars, name) IN
    IF cvar # NoEntry
    THEN MemberCall("cmdReset", name,
                    InternalSetDefaultValue(cvar, allowWritingRomCVars, allowWritingInitCVars))
    ELSE /\ lastCVarOp' = CVarOp("cmdResetMissing", name, FALSE)
         /\ UNCHANGED << cmdVars, registeredCVars, allowWritingRomCVars,
                         allowWritingInitCVars, splitIn, convIn, moreVars >>

CallSetAllowWritingReadOnlyVars(allow) ==
    /\ allowWritingRomCVars' = allow
    /\ allowWritingInitCVars' = allow
    /\ lastCVarOp' = CVarOp("setAllowWritingReadOnlyVars", << >>, TRUE)
    /\ UNCHANGED << cmdVars, registeredCVars, splitIn, convIn, moreVars >>

CallSetAllowWritingInitOnlyVars(allow) ==
    /\ allowWritingInitCVars' = allow
    /\ lastCVarOp' = CVarOp("setAllowWritingInitOnlyVars", << >>, TRUE)
    /\ UNCHANGED << cmdVars, registeredCVars, allowWritingRomCVars, splitIn, convIn, moreVars >>

\* cmdSaveConfig (cfg.cpp:7459).  openOk is the result of io->open, and
\* writeFails the variables whose writeFormat call returns false; the command
\* does not look at the write results.  The observation records ok (the
\* command ran to "successfully written") and saved (the file was opened and
\* the line of every persistent variable was written).
CmdSaveConfig(openOk, writeFails) ==
    /\ registeredCVars' = IF openOk THEN SaveConfigClear(registeredCVars) ELSE registeredCVars
    /\ lastCVarOp' = [op |-> "saveConfig", name |-> << >>, ok |-> openOk,
                       saved |-> openOk /\ PersistentNames(registeredCVars) \cap writeFails = {}]
    /\ UNCHANGED << cmdVars, allowWritingRomCVars, allowWritingInitCVars, splitIn, convIn, moreVars >>

NextCVar ==
    \/ \E reg \in RegistrationMenu : CallRegisterCVar(reg)
    \/ \E name \in CVarNames, v \in IntMenu : CallSetIntValue(name, v)
    \/ \E name \in CVarNames, v \in BOOLEAN : CallSetBoolValue(name, v)
    \/ \E name \in CVarNames, v \in FloatMenu : CallSetFloatValue(name, v)
    \/ \E name \in CVarNames, v \in StringMenu : CallSetStringValue(name, v)
    \/ \E name \in CVarNames : CallSetDefaultValue(name)
    \/ \E name \in CVarNames, v \in StringMenu, flags \in SetFlagsMenu, noCreate \in BOOLEAN :
          CmdSet(name, v, flags, noCreate)
    \/ \E name \in CVarNames : CmdReset(name)
    \/ \E allow \in BOOLEAN : CallSetAllowWritingReadOnlyVars(allow)
    \/ \E allow \in BOOLEAN : CallSetAllowWritingInitOnlyVars(allow)
    \/ \E openOk \in BOOLEAN, writeFails \in SUBSET CVarNames : CmdSaveConfig(openOk, writeFails)

SpecCVar == InitCVar /\ [][NextCVar]_vars

-----------------------------------------------------------------------------
(* Properties of the CVar registry (SpecCVar).  A step is recognised by the *)
(* observation it leaves in lastCVarOp.                                     *)

PublicSetters == {"setIntValue", "setBoolValue", "setFloatValue", "setStringValue",
                  "setDefaultValue"}

PrivilegedWrites == {"cmdSet", "cmdReset"}

\* A range-checked integer variable holds a value of its range.
InRange(cvar) ==
    (cvar.type = "Int" /\ IsRangeChecked(cvar))
        => (cvar.valueRange.minValue <= cvar.currentValue
            /\ cvar.currentValue <= cvar.valueRange.maxValue)

\* C7: for every numeric CVar with RangeCheck the value lies in [min, max]
\* after any sequence of registrations, set*, setDefaultValue and reset calls,
\* public or privileged, and a rejected write leaves the value unchanged.
C7_ValueInRange ==
    [][ /\ \A k \in 1..Len(registeredCVars') : InRange(registeredCVars'[k])
        /\ (lastCVarOp'.op \in (PublicSetters \cup PrivilegedWrites) /\ ~lastCVarOp'.ok)
              => FindByKey(registeredCVars', lastCVarOp'.name).currentValue
                   = FindByKey(registeredCVars, lastCVarOp'.name).currentValue ]_vars

\* The variable has ReadOnly or InitOnly set.
HasWriteProtection(cvar) == "ReadOnly" \in cvar.flags \/ "InitOnly" \in cvar.flags

\* C8: a public setter called on a ReadOnly or InitOnly variable fails and
\* leaves value, default value and flags as they were.
C8_ReadOnlyWriteFails ==
    [][ (/\ lastCVarOp'.op \in PublicSetters
         /\ HasWriteProtection(FindByKey(registeredCVars, lastCVarOp'.name)))
        => (~lastCVarOp'.ok /\ registeredCVars' = registeredCVars) ]_vars

\* A public setter was refused on an InitOnly variable.
C8_Witness ==
    /\ lastCVarOp.op \in PublicSetters
    /\ ~lastCVarOp.ok
    /\ "InitOnly" \in FindByKey(registeredCVars, lastCVarOp.name).flags

\* C9: a write made by set / reset through internalSetStringValue or
\* internalSetDefaultValue never sets the Modified flag, whatever the target
\* variable and whether or not an override is enabled.
C9_PrivilegedKeepsModified ==
    [][ lastCVarOp'.op \in PrivilegedWrites
        => (IsModified(FindByKey(registeredCVars', lastCVarOp'.name))
              => IsModified(FindByKey(registeredCVars, lastCVarOp'.name))) ]_vars

\* C10: after a successful saveConfig no persistent CVar is Modified, and
\* Modified flags are cleared only when the save succeeded.
C10_SaveClearsModified ==
    [][ lastCVarOp'.op = "saveConfig"
        => /\ lastCVarOp'.ok
                => PersistentNames(registeredCVars') \cap ModifiedNames(registeredCVars') = {}
           /\ ModifiedNames(registeredCVars') # ModifiedNames(registeredCVars)
                => lastCVarOp'.saved ]_vars

-----------------------------------------------------------------------------
(* The value conversions as functions of their input (SpecConv): the input  *)
(* is drawn from small sets and one conversion call sequence is applied.   *)

\* Largest magnitude of the integers converted.
MaxConvInt == 20

\* The bases of CVar::NumberFormat.
ConvBases == {2, 8, 10, 16}

\* Integers to format and parse back: any base for a non-negative value, a
\* negative value in decimal.
IntInputs ==
    {[kind |-> "int", applied |-> FALSE, number |-> n, base |-> b] :
        n \in 0..MaxConvInt, b \in ConvBases}
    \cup {[kind |-> "int", applied |-> FALSE, number |-> 0 - n, base |-> 10] :
        n \in 1..MaxConvInt}

NumberFormats == {"Binary", "Octal", "Decimal", "Hexadecimal"}

\* The enum constants of the enum CVars converted: lo = 0, hi = 1.
ConvEnumList == EnumConstList(TRUE, << << "l", "o" >>, << "h", "i" >> >>, << 0, 1 >>)

\* Writable CVars of every modelled type whose value is inside its
\* constraint: integers in each number format, booleans, strings with and
\* without an allowed list, enums with and without RangeCheck.
ConvCVars ==
    {SetNumberFormat(NewCVar(<< "x" >>, "Int", fl, n, NumberRange(0 - MaxConvInt, MaxConvInt)), f) :
        fl \in {{}, {"RangeCheck"}}, n \in 0..MaxConvInt, f \in NumberFormats}
    \cup {NewCVar(<< "x" >>, "Int", {}, 0 - n, NumberRange(0, 0)) : n \in 1..MaxConvInt}
    \cup {NewCVar(<< "x" >>, "Bool", {}, b, NumberRange(FALSE, TRUE)) : b \in BOOLEAN}
    \cup {NewCVar(<< "x" >>, "String", fl, s, AllowedStrings(TRUE, << << "a" >>, << "1" >> >>)) :
        fl \in {{}, {"RangeCheck"}}, s \in {<< "a" >>, << "1" >>}}
    \cup {NewCVar(<< "x" >>, "Enum", fl, EnumInitValue(n, ConvEnumList), ConvEnumList) :
        fl \in {{}, {"RangeCheck"}}, n \in 0..2}

\* Strings assigned to an enum CVar: the names and the numeric literals of
\* the declared constants, and a name and a literal that are not declared.
EnumStrings == {<< "l", "o" >>, << "h", "i" >>, << "0" >>, << "1" >>, << "2" >>, << "z" >>}

CVarInputs == {[kind |-> "cvar", applied |-> FALSE, cvar |-> c] : c \in ConvCVars}

EnumInputs ==
    {[kind |-> "enum", applied |-> FALSE, cvar |-> c, newValue |-> s] :
        c \in {c \in ConvCVars : c.type = "Enum"}, s \in EnumStrings}

InitConv ==
    /\ cmdBuffer = << >>
    /\ registeredCommands = StartupCommands
    /\ disabledCmdFlags = {}
    /\ aborted = FALSE
    /\ lastExec = IdleExec
    /\ registeredCVars = StartupCVars
    /\ allowWritingRomCVars = FALSE
    /\ allowWritingInitCVars = FALSE
    /\ lastCVarOp = IdleCVarOp
    /\ splitIn = IdleSplit
    /\ convIn \in IntInputs \cup CVarInputs \cup EnumInputs
    /\ MoreIdle

\* The conversion has run: str is the text produced, back the result of
\* reading the text.
Converted(str, back) ==
    /\ convIn' = [kind |-> convIn.kind, applied |-> TRUE, in |-> convIn,
                  str |-> str, back |-> back]
    /\ UNCHANGED << cmdVars, cvarVars, splitIn, moreVars >>

\* intToString(number, base) followed by cvarToInt64 of the text.
CallIntRoundTrip ==
    /\ convIn.kind = "int" /\ ~convIn.applied
    /\ Converted(IntToString(convIn.number, convIn.base),
                 CvarToInt64(IntToString(convIn.number, convIn.base)))

\* cvar->setStringValue(cvar->getStringValue()).
CallStringRoundTrip ==
    /\ convIn.kind = "cvar" /\ ~convIn.applied
    /\ Converted(CVarGetStringValue(convIn.cvar),
                 SetStringValue(convIn.cvar, CVarGetStringValue(convIn.cvar)))

\* cvar->setStringValue(newValue) on an enum CVar.
CallEnumAssign ==
    /\ convIn.kind = "enum" /\ ~convIn.applied
    /\ Converted(convIn.newValue, SetStringValue(convIn.cvar, convIn.newValue))

NextConv ==
    \/ CallIntRoundTrip
    \/ CallStringRoundTrip
    \/ CallEnumAssign

SpecConv == InitConv /\ [][NextConv]_vars

\* C13: formatting a non-negative integer in base 2, 8, 10 or 16 (a negative
\* one in decimal) and parsing the text yields the original integer.
C13_IntRoundTrip ==
    (convIn.kind = "int" /\ convIn.applied) =>
        convIn.back.ok /\ convIn.back.value = convIn.in.number

\* What does hold: the round trip is exact in decimal and in hexadecimal.
IntRoundTripDecHex ==
    (convIn.kind = "int" /\ convIn.applied /\ convIn.in.base \in {10, 16}) =>
        convIn.back.ok /\ convIn.back.value = convIn.in.number

\* The string is inside the constraint of the CVar.
WithinAllowed(cvar, str) ==
    CASE cvar.type = "String" ->
           ~IsRangeChecked(cvar) \/ SeqContains(cvar.valueRange.strings, str)
      [] cvar.type = "Enum" ->
           ~IsRangeChecked(cvar) \/ SeqContains(cvar.valueRange.names, str)
      [] cvar.type = "Int" ->
           \/ ~IsRangeChecked(cvar)
           \/ /\ cvar.currentValue >= cvar.valueRange.minValue
              /\ cvar.currentValue <= cvar.valueRange.maxValue
      [] OTHER -> TRUE

\* C12: for every writable CVar, setStringValue of the string getStringValue
\* returned succeeds and leaves the value as it was, whenever that string
\* lies within the allowed set.
C12_StringRoundTrip ==
    (/\ convIn.kind = "cvar" /\ convIn.applied
     /\ IsWritable(convIn.in.cvar)
     /\ WithinAllowed(convIn.in.cvar, convIn.str)) =>
        /\ convIn.back.ok
        /\ convIn.back.cvar.currentValue = convIn.in.cvar.currentValue

\* What does hold: the round trip is the identity for integers in decimal
\* and hexadecimal format, booleans, strings, and range-checked enums whose
\* value is a declared constant.
StringRoundTripWhereExact ==
    (/\ convIn.kind = "cvar" /\ convIn.applied
     /\ \/ convIn.in.cvar.type \in {"Bool", "String"}
        \/ convIn.in.cvar.type = "Int"
             /\ convIn.in.cvar.numberFormat \in {"Decimal", "Hexadecimal"}
        \/ convIn.in.cvar.type = "Enum" /\ IsRangeChecked(convIn.in.cvar)
             /\ convIn.in.cvar.currentValue.name # << >>) =>
        /\ convIn.back.ok
        /\ convIn.back.cvar.currentValue = convIn.in.cvar.currentValue

\* The declared constant a string denotes: by its name or by the decimal
\* literal of its value; 0 when it denotes none.
DenotedConstant(list, str) ==
    IF FirstIndex(list.names, str) # 0 THEN FirstIndex(list.names, str)
    ELSE IF CvarToInt64(str).ok THEN FirstIndex(list.values, CvarToInt64(str).value)
    ELSE 0

\* C14: assigning to an enum CVar the name or the numeric literal of a
\* declared constant succeeds and sets that constant.
C14_EnumAssign ==
    (/\ convIn.kind = "enum" /\ convIn.applied
     /\ DenotedConstant(convIn.in.cvar.valueRange, convIn.in.newValue) # 0) =>
        /\ convIn.back.ok
        /\ convIn.back.cvar.currentValue.value =
              convIn.in.cvar.valueRange.values[
                  DenotedConstant(convIn.in.cvar.valueRange, convIn.in.newValue)]

\* What does hold: with RangeCheck a declared name sets its constant, and
\* without RangeCheck a numeric literal sets its value.
EnumAssignByFlag ==
    (/\ convIn.kind = "enum" /\ convIn.applied
     /\ DenotedConstant(convIn.in.cvar.valueRange, convIn.in.newValue) # 0
     /\ IsRangeChecked(convIn.in.cvar) = (FirstIndex(convIn.in.cvar.valueRange.names,
                                                     convIn.in.newValue) # 0)) =>
        /\ convIn.back.ok
        /\ convIn.back.cvar.currentValue.value =
              convIn.in.cvar.valueRange.values[
                  DenotedConstant(convIn.in.cvar.valueRange, convIn.in.newValue)]

-----------------------------------------------------------------------------
(* A LinkedHashTable used on its own: nodes with distinct names are linked, *)
(* looked up and unlinked in any order.                                    *)

\* Two of the names have the same StringHasher value, 415159071.
TableKeys ==
    { << "a" >>, << "b" >>, << "p" >>,
      << "a", "q", "a", "a" >>, << "e", "l", "u", "e" >> }

NullHash == << 0, 0 >>

InitTable == InitCmd

IsLinked(key) == \E k \in 1..Len(hashTable.nodes) : hashTable.nodes[k].name = key

\* table.linkWithKey(node, key) of a node that is not linked.
CallLinkWithKey ==
    /\ \E key \in TableKeys :
         /\ ~IsLinked(key)
         /\ HashOf(key) # NullHash
         /\ hashTable' = [nodes |-> LinkWithKey(hashTable.nodes,
                                                 [name |-> key, kind |-> "node"]),
                           op |-> "link", key |-> key, found |-> NoEntry]
    /\ UNCHANGED << cmdVars, cvarVars, splitIn, convIn, regVars, ioVars, termVars >>

\* table.unlinkByKey(key); found is the node the call returns.
CallUnlinkByKey ==
    /\ \E key \in TableKeys :
         hashTable' = [nodes |-> UnlinkByKey(hashTable.nodes, key),
                       op |-> "unlink", key |-> key,
                       found |-> FindByKey(hashTable.nodes, key)]
    /\ UNCHANGED << cmdVars, cvarVars, splitIn, convIn, regVars, ioVars, termVars >>

\* table.findByKey(key).
CallFindByKey ==
    /\ \E key \in TableKeys :
         hashTable' = [nodes |-> hashTable.nodes, op |-> "find", key |-> key,
                       found |-> FindByKey(hashTable.nodes, key)]
    /\ UNCHANGED << cmdVars, cvarVars, splitIn, convIn, regVars, ioVars, termVars >>

NextTable ==
    \/ CallLinkWithKey
    \/ CallUnlinkByKey
    \/ CallFindByKey

SpecTable == InitTable /\ [][NextTable]_vars

\* C15: every linked entry has a non-zero stored hash, and findByKey of its
\* name returns exactly that entry, never an entry linked under another name.
C15_FindReturnsOwnEntry ==
    \A k \in 1..Len(hashTable.nodes) :
        /\ hashTable.nodes[k].hashKey # NullHash
        /\ FindByKey(hashTable.nodes, hashTable.nodes[k].name) = hashTable.nodes[k]

\* What the table does: the stored hash is non-zero, and findByKey returns
\* the most recently linked entry whose hash equals the hash of the name.
FindReturnsNewestOfHash ==
    \A k \in 1..Len(hashTable.nodes) :
        /\ hashTable.nodes[k].hashKey # NullHash
        /\ \E j \in 1..k :
              /\ FindByKey(hashTable.nodes, hashTable.nodes[k].name) = hashTable.nodes[j]
              /\ hashTable.nodes[j].hashKey = hashTable.nodes[k].hashKey
              /\ \A i \in 1..(j - 1) :
                    hashTable.nodes[i].hashKey # hashTable.nodes[k].hashKey

\* unlinkByKey of the older of two names with one hash removes the newer.
UnlinkTookOtherName ==
    /\ hashTable.op = "unlink"
    /\ hashTable.found # NoEntry
    /\ hashTable.found.name # hashTable.key
    /\ IsLinked(hashTable.key)

-----------------------------------------------------------------------------
(* The two registries under registrations and removals in any order.  The  *)
(* command manager holds the pointer to the CVar manager (cfg.cpp:3736);   *)
(* the CVar manager has no pointer to the command manager.                 *)

\* CommandManagerImpl::isValidCommandName.
IsValidCommandName(name) ==
    /\ name # << >>
    /\ IsLetter(name[1]) \/ name[1] = "_"
    /\ \A i \in 2..Len(name) : IsDigit(name[i]) \/ IsLetter(name[i]) \/ name[i] = "_"
    /\ Len(name) < MaxCommandNameLength

\* CVarManagerImpl::findCVar.
FindCVar(cvars, name) == IF name = << >> THEN NoEntry ELSE FindByKey(cvars, name)

\* CommandManagerImpl::registerCmdPreValidate.
RegisterCmdPreValidate(cmds, cvars, cmdName) ==
    /\ IsValidCommandName(cmdName)
    /\ FindByKey(cmds, cmdName) = NoEntry
    /\ FindCVar(cvars, cmdName) = NoEntry

\* The names every CVarManagerImpl enumeration visits: the chain of all nodes
\* from getFirst() along getNext().
EnumerateAllCVars(cvars) == {cvars[k].name : k \in 1..Len(cvars)}

\* CVarManagerImpl::findCVarsWithFlags, as the set of the names found.
FindCVarsWithFlags(cvars, flags) ==
    IF flags = {} THEN {}
    ELSE {cvars[k].name : k \in {j \in 1..Len(cvars) : cvars[j].flags \cap flags # {}}}

\* cvarNameStartsWith.
CvarNameStartsWith(name, prefix) ==
    IF Len(name) < Len(prefix) THEN FALSE
    ELSE IF name = << >> \/ prefix = << >> THEN FALSE
    ELSE SubSeq(name, 1, Len(prefix)) = prefix

\* CVarManagerImpl::findCVarsWithPartialName, as the set of the names found.
FindCVarsWithPartialName(cvars, partialName) ==
    IF partialName = << >> THEN {}
    ELSE {cvars[k].name :
             k \in {j \in 1..Len(cvars) : CvarNameStartsWith(cvars[j].name, partialName)}}

\* Two of the names have the same StringHasher value; both are too long for
\* a command of this model.
RegNames == { << "a" >>, << "b" >>, << "a", "q", "a", "a" >>, << "e", "l", "u", "e" >> }

\* Calls of createCommandAlias are explored while the counter is below this.
MaxAliasCount == 2

InitReg ==
    /\ cmdBuffer = << >>
    /\ registeredCommands = << >>
    /\ disabledCmdFlags = {}
    /\ aborted = FALSE
    /\ lastExec = IdleExec
    /\ registeredCVars = << >>
    /\ allowWritingRomCVars = FALSE
    /\ allowWritingInitCVars = FALSE
    /\ lastCVarOp = IdleCVarOp
    /\ splitIn = IdleSplit
    /\ convIn = IdleConv
    /\ MoreIdle

\* The call op(name) has returned ok.
RegReturned(op, name, ok) ==
    /\ lastRegOp' = [op |-> op, name |-> name, ok |-> ok]
    /\ UNCHANGED << cmdBuffer, disabledCmdFlags, aborted, lastExec, allowWritingRomCVars,
                    allowWritingInitCVars, lastCVarOp, splitIn, convIn, hashTable, ioVars,
                    termVars >>

\* cmdManager->registerCommand(name, handler).
CallRegisterCommand ==
    \E name \in RegNames :
        /\ registeredCommands' =
              IF RegisterCmdPreValidate(registeredCommands, registeredCVars, name)
              THEN LinkWithKey(registeredCommands, NewCommand(name, {}, 0 - 1, 0 - 1))
              ELSE registeredCommands
        /\ RegReturned("registerCommand", name,
                       RegisterCmdPreValidate(registeredCommands, registeredCVars, name))
        /\ UNCHANGED << registeredCVars, cmdAliasCount, removedCVars >>

\* cmdManager->createCommandAlias(aliasName, "a", CommandExecMode::Append).
CallCreateCommandAlias ==
    \E aliasName \in RegNames :
        /\ cmdAliasCount < MaxAliasCount
        /\ registeredCommands' =
              IF RegisterCmdPreValidate(registeredCommands, registeredCVars, aliasName)
              THEN LinkWithKey(registeredCommands, NewAlias(aliasName, << "a" >>, "Append"))
              ELSE registeredCommands
        /\ cmdAliasCount' =
              IF RegisterCmdPreValidate(registeredCommands, registeredCVars, aliasName)
              THEN cmdAliasCount + 1
              ELSE cmdAliasCount
        /\ RegReturned("createCommandAlias", aliasName,
                       RegisterCmdPreValidate(registeredCommands, registeredCVars, aliasName))
        /\ UNCHANGED << registeredCVars, removedCVars >>

\* CommandManagerImpl::removeCommand(name): [ok, cmds].
RemoveCommand(cmds, name) ==
    IF ~IsValidCommandName(name) THEN [ok |-> FALSE, cmds |-> cmds]
    ELSE [ok |-> FindByKey(cmds, name) # NoEntry, cmds |-> UnlinkByKey(cmds, name)]

\* cmdManager->removeCommand(name).
CallRemoveCommand ==
    \E name \in RegNames :
        /\ registeredCommands' = RemoveCommand(registeredCommands, name).cmds
        /\ RegReturned("removeCommand", name, RemoveCommand(registeredCommands, name).ok)
        /\ UNCHANGED << registeredCVars, cmdAliasCount, removedCVars >>

\* CommandManagerImpl::removeCommandAlias(aliasName): [ok, cmds, count].
RemoveCommandAlias(cmds, count, aliasName) ==
    IF ~IsValidCommandName(aliasName) THEN [ok |-> FALSE, cmds |-> cmds, count |-> count]
    ELSE IF FindByKey(cmds, aliasName) = NoEntry \/ ~IsAlias(FindByKey(cmds, aliasName))
         THEN [ok |-> FALSE, cmds |-> cmds, count |-> count]
         ELSE IF ~RemoveCommand(cmds, aliasName).ok
              THEN [ok |-> FALSE, cmds |-> cmds, count |-> count]
              ELSE [ok |-> TRUE, cmds |-> RemoveCommand(cmds, aliasName).cmds,
                    count |-> count - 1]

\* cmdManager->removeCommandAlias(aliasName).
CallRemoveCommandAlias ==
    \E aliasName \in RegNames :
        /\ registeredCommands' =
              RemoveCommandAlias(registeredCommands, cmdAliasCount, aliasName).cmds
        /\ cmdAliasCount' =
              RemoveCommandAlias(registeredCommands, cmdAliasCount, aliasName).count
        /\ RegReturned("removeCommandAlias", aliasName,
                       RemoveCommandAlias(registeredCommands, cmdAliasCount, aliasName).ok)
        /\ UNCHANGED << registeredCVars, removedCVars >>

\* cmdManager->removeAllCommands(): every entry is destroyed and the table
\* deallocated; cmdAliasCount is not written.
CallRemoveAllCommands ==
    /\ registeredCommands' = << >>
    /\ RegReturned("removeAllCommands", << >>, TRUE)
    /\ UNCHANGED << registeredCVars, cmdAliasCount, removedCVars >>

\* cmdManager->removeAllCommandAliases().
CallRemoveAllCommandAliases ==
    /\ registeredCommands' = SelectSeq(registeredCommands, LAMBDA cmd : ~IsAlias(cmd))
    /\ cmdAliasCount' = 0
    /\ RegReturned("removeAllCommandAliases", << >>, TRUE)
    /\ UNCHANGED << registeredCVars, removedCVars >>

\* cvarManager->registerCVarString(name, "", CVar::Flags::UserDefined, "", nullptr).
CallRegisterCVarString ==
    \E name \in RegNames :
        /\ registeredCVars' = RegisterCVar(registeredCVars, name, "String", {"UserDefined"},
                                           << >>, AllowedStrings(FALSE, << >>))
        /\ RegReturned("registerCVar", name, ValidateCVarRegistration(registeredCVars, name))
        /\ removedCVars' = IF ValidateCVarRegistration(registeredCVars, name)
                           THEN removedCVars \ {name}
                           ELSE removedCVars
        /\ UNCHANGED << registeredCommands, cmdAliasCount >>

\* CVarManagerImpl::removeCVar(name): [ok, cvars].
RemoveCVar(cvars, name) ==
    IF ~IsValidCVarName(name) THEN [ok |-> FALSE, cvars |-> cvars]
    ELSE [ok |-> FindByKey(cvars, name) # NoEntry, cvars |-> UnlinkByKey(cvars, name)]

\* cvarManager->removeCVar(name).
CallRemoveCVar ==
    \E name \in RegNames :
        /\ registeredCVars' = RemoveCVar(registeredCVars, name).cvars
        /\ RegReturned("removeCVar", name, RemoveCVar(registeredCVars, name).ok)
        /\ removedCVars' = IF RemoveCVar(registeredCVars, name).ok
                           THEN removedCVars \cup {name}
                           ELSE removedCVars
        /\ UNCHANGED << registeredCommands, cmdAliasCount >>

\* cvarManager->removeAllCVars().
CallRemoveAllCVars ==
    /\ registeredCVars' = << >>
    /\ RegReturned("removeAllCVars", << >>, TRUE)
    /\ UNCHANGED << registeredCommands, cmdAliasCount, removedCVars >>

NextReg ==
    \/ CallRegisterCommand
    \/ CallCreateCommandAlias
    \/ CallRemoveCommand
    \/ CallRemoveCommandAlias
    \/ CallRemoveAllCommands
    \/ CallRemoveAllCommandAliases
    \/ CallRegisterCVarString
    \/ CallRemoveCVar
    \/ CallRemoveAllCVars

SpecReg == InitReg /\ [][NextReg]_vars

\* findCVar(x) returns null and no enumeration of the CVars visits x.
CVarAbsent(cvars, x) ==
    /\ FindCVar(cvars, x) = NoEntry
    /\ x \notin EnumerateAllCVars(cvars)
    /\ \A flags \in SUBSET CVarFlags : x \notin FindCVarsWithFlags(cvars, flags)
    /\ \A n \in 1..Len(x) : x \notin FindCVarsWithPartialName(cvars, SubSeq(x, 1, n))

\* C16: after removeCVar(x) has succeeded, and until x is registered again,
\* findCVar(x) returns null and every enumeration (all CVars, flag search,
\* partial-name search) omits x.
C16_RemovedCVarAbsent ==
    \A x \in removedCVars : CVarAbsent(registeredCVars, x)

\* What removeCVar gives: when the call returns true the name is absent in
\* the state it leaves, and no enumeration visits a removed name later.
RemovedCVarAbsentAtOnce ==
    /\ (lastRegOp.op = "removeCVar" /\ lastRegOp.ok) =>
           CVarAbsent(registeredCVars, lastRegOp.name)
    /\ \A x \in removedCVars : x \notin EnumerateAllCVars(registeredCVars)

RemovedCVarAbsentAtOnceReached ==
    /\ lastRegOp.op = "removeCVar" /\ lastRegOp.ok
    /\ registeredCVars # << >>

\* No two entries of the table have the same name.
NamesDiffer(table) ==
    \A i, j \in 1..Len(table) : i # j => table[i].name # table[j].name

\* No name is a command (or alias) and a CVar.
NoSharedName(cmds, cvars) ==
    \A i \in 1..Len(cmds), j \in 1..Len(cvars) : cmds[i].name # cvars[j].name

\* C17: after every registration and removal no two commands share a name,
\* no two CVars share a name and no name is both a command (or alias) and a
\* CVar; a registration that fails leaves both registry counts unchanged.
C17_NamesUnique ==
    [][/\ NamesDiffer(registeredCommands')
       /\ NamesDiffer(registeredCVars')
       /\ NoSharedName(registeredCommands', registeredCVars')
       /\ (/\ lastRegOp'.op \in {"registerCommand", "createCommandAlias", "registerCVar"}
           /\ ~lastRegOp'.ok) =>
              /\ Len(registeredCommands') = Len(registeredCommands)
              /\ Len(registeredCVars') = Len(registeredCVars)]_vars

\* What the registrations give: names are unique inside each registry, a
\* failed registration changes no count, and a command or alias is never
\* registered under the name of an existing CVar.
NamesUniquePerRegistry ==
    [][/\ NamesDiffer(registeredCommands')
       /\ NamesDiffer(registeredCVars')
       /\ (/\ lastRegOp'.op \in {"registerCommand", "createCommandAlias", "registerCVar"}
           /\ ~lastRegOp'.ok) =>
              /\ Len(registeredCommands') = Len(registeredCommands)
              /\ Len(registeredCVars') = Len(registeredCVars)
       /\ (/\ lastRegOp'.op \in {"registerCommand", "createCommandAlias"}
           /\ FindCVar(registeredCVars, lastRegOp'.name) # NoEntry) =>
              ~lastRegOp'.ok]_vars

\* C18: getCommandAliasCount() is the number of alias entries in the command
\* registry.
C18_AliasCountTracksAliases ==
    cmdAliasCount = Len(SelectSeq(registeredCommands, IsAlias))

\* What the counter gives: it is never below the number of aliases.
AliasCountNotBelow ==
    cmdAliasCount >= Len(SelectSeq(registeredCommands, IsAlias))

-----------------------------------------------------------------------------
(* Disabled commands.  The clients set and clear the mask between the calls *)
(* that execute command text; the line editor hands its line to            *)
(* CommandManager::execute.                                                *)

\* SimpleCommandTerminal::builtInCmds.
BuiltInCmds ==
    { << "e", "x", "i", "t" >>, << "c", "l", "e", "a", "r" >>,
      << "h", "i", "s", "t", "V", "i", "e", "w" >>,
      << "h", "i", "s", "t", "C", "l", "e", "a", "r" >>,
      << "h", "i", "s", "t", "S", "a", "v", "e" >>,
      << "h", "i", "s", "t", "L", "o", "a", "d" >> }

\* execCmdLine: the index of the first character that is not whitespace.
RECURSIVE SkipWhitespace(_, _)
SkipWhitespace(cmd, i) ==
    IF i <= Len(cmd) /\ IsWhitespace(cmd[i]) THEN SkipWhitespace(cmd, i + 1) ELSE i

\* execCmdLine: the index after the last character of the word that starts
\* at i.
RECURSIVE SkipWord(_, _)
SkipWord(cmd, i) ==
    IF i <= Len(cmd) /\ ~IsWhitespace(cmd[i]) THEN SkipWord(cmd, i + 1) ELSE i

\* execCmdLine, the name of a CVar: the value is printed, or set from the
\* first argument of the line.  Result: [st, cvars].
CmdLineOnCVar(env, st, cvar, a) ==
    IF a.crashed THEN [st |-> [st EXCEPT !.aborted = TRUE], cvars |-> env.cvars]
    ELSE IF Len(a.args) < 1 THEN [st |-> st, cvars |-> env.cvars]
    ELSE [st |-> st, cvars |-> UpdateEntry(env.cvars, SetStringValue(cvar, a.args[1]).cvar)]

\* SimpleCommandTerminal::execCmdLine with the word [first, last) as the
\* command name.  Result: [st, cvars].
ExecCmdLineNamed(env, st, cmd, cmdExecMode, first, last) ==
    IF first = last THEN [st |-> st, cvars |-> env.cvars]
    ELSE IF FindCVar(env.cvars, SubSeq(cmd, first, last - 1)) # NoEntry
    THEN CmdLineOnCVar(env, st, FindCVar(env.cvars, SubSeq(cmd, first, last - 1)),
                       ParseArgString(cmd))
    ELSE IF SubSeq(cmd, first, last - 1) \in BuiltInCmds
    THEN [st |-> st, cvars |-> env.cvars]
    ELSE IF FindByKey(env.cmds, SubSeq(cmd, first, last - 1)) # NoEntry
    THEN [st |-> Execute(env, st, cmdExecMode, DropFirst(cmd, first - 1), 0),
          cvars |-> env.cvars]
    ELSE [st |-> st, cvars |-> env.cvars]

ExecCmdLine(env, st, cmd, cmdExecMode) ==
    ExecCmdLineNamed(env, st, cmd, cmdExecMode, SkipWhitespace(cmd, 1),
                     SkipWord(cmd, SkipWhitespace(cmd, 1)))

\* Command texts the clients submit: the flagged command p, aliases of p,
\* the plain command a.
DisableAppendMenu == { << "p" >>, << "m" >>, << "b" >> }

DisableNowMenu == { << "a", ";", "p" >>, << "i" >> }

\* Lines of the line editor: p after a blank, an alias, a CVar assignment, a
\* built-in.
DisableLineMenu ==
    { << " ", "p" >>, << "b" >>, << "v", " ", "p" >>, << "e", "x", "i", "t" >> }

DisableMaskMenu == { {1}, {2}, DisableAll }

ExecModes == {"Append", "Insert", "Immediate"}

InitDisable == InitCmd

\* cmdManager->disableCommandsWithFlags(flags).
CallDisableCommandsWithFlags ==
    \E flags \in DisableMaskMenu :
        /\ ~aborted
        /\ disabledCmdFlags' = flags
        /\ lastExec' = [IdleExec EXCEPT !.op = "disableCommandsWithFlags"]
        /\ UNCHANGED << cmdBuffer, registeredCommands, aborted, cvarVars, splitIn, convIn,
                        moreVars >>

\* cmdManager->enableAllCommands().
CallEnableAllCommands ==
    /\ ~aborted
    /\ disabledCmdFlags' = {}
    /\ lastExec' = [IdleExec EXCEPT !.op = "enableAllCommands"]
    /\ UNCHANGED << cmdBuffer, registeredCommands, aborted, cvarVars, splitIn, convIn,
                    moreVars >>

\* execCmdLine has returned r = [st, cvars].
CmdLineReturned(cmd, r) ==
    /\ cmdBuffer' = r.st.buf
    /\ aborted' = r.st.aborted
    /\ registeredCVars' = r.cvars
    /\ lastExec' = Observe("execCmdLine", cmd, 0, r.st, 0)
    /\ UNCHANGED << registeredCommands, disabledCmdFlags, allowWritingRomCVars,
                    allowWritingInitCVars, lastCVarOp, splitIn, convIn, moreVars >>

\* The line editor runs the line cmd; cmdExecMode is the mode the terminal
\* has been given with setCommandExecMode.
CallExecCmdLine ==
    \E cmd \in DisableLineMenu, cmdExecMode \in ExecModes :
        /\ ~aborted
        /\ CmdLineReturned(cmd, ExecCmdLine(Env, CallStart, cmd, cmdExecMode))

NextDisable ==
    \/ CallDisableCommandsWithFlags
    \/ CallEnableAllCommands
    \/ CallExecCmdLine
    \/ \E str \in DisableAppendMenu : CallExecAppend(str)
    \/ \E str \in DisableNowMenu : CallExecNow(str)
    \/ CallExecBufferedCommands(ExecAll)

SpecDisable == InitDisable /\ [][NextDisable]_vars

\* The mask suppresses a command with these flags.
Suppressed(mask, flags) == mask # {} /\ (mask = DisableAll \/ flags \cap mask # {})

\* C19: while a mask is set, no execution path (execNow, buffered
\* execution, alias expansion, the line editor) invokes the handler of a
\* command whose flags intersect the mask, and none invokes any handler in
\* the disable-all state; the suppressed execution is reported.
C19_DisabledNeverInvoked ==
    \A k \in 1..Len(lastExec.trace) :
        /\ lastExec.trace[k].outcome = "executed" =>
              ~Suppressed(disabledCmdFlags,
                          FindByKey(registeredCommands, lastExec.trace[k].name).flags)
        /\ (/\ lastExec.trace[k].outcome \notin {"abort", "nameTooLong", "notFound"}
            /\ Suppressed(disabledCmdFlags,
                          FindByKey(registeredCommands, lastExec.trace[k].name).flags)) =>
              lastExec.trace[k].outcome = "disabled"

\* Under the mask {1} a buffered alias has run and its target p, which has
\* flag 1, was suppressed.
C19_Witness ==
    /\ disabledCmdFlags = {1}
    /\ lastExec.op = "execBufferedCommands"
    /\ \E j, k \in 1..Len(lastExec.trace) :
          /\ j < k
          /\ lastExec.trace[j].outcome = "executed"
          /\ IsAlias(FindByKey(registeredCommands, lastExec.trace[j].name))
          /\ lastExec.trace[k].name = << "p" >>
          /\ lastExec.trace[k].outcome = "disabled"

-----------------------------------------------------------------------------
(* SimpleCommandTerminal: the edit buffer (cfg.cpp:5345-5372, 5872-5968).  *)
(* lineBuffer is the array of LineBufferMaxSize characters; a write outside *)
(* of it ends the run (aborted).                                            *)

\* lineBuffer[i] = c.
PutChar(le, i, c) ==
    IF i \in DOMAIN le.lineBuffer THEN [le EXCEPT !.lineBuffer[i] = c]
    ELSE [le EXCEPT !.aborted = TRUE]

\* for (i = from; i != to; ++i) lineBuffer[i] = lineBuffer[i + 1];
\* lineBuffer[i] = '\0'.  The loop does not end when from is above to.
RECURSIVE CloseGap(_, _, _)
CloseGap(le, from, to) ==
    IF from = to THEN PutChar(le, from, NUL)
    ELSE IF from > to \/ (from + 1) \notin DOMAIN le.lineBuffer
    THEN [le EXCEPT !.aborted = TRUE]
    ELSE CloseGap(PutChar(le, from, le.lineBuffer[from + 1]), from + 1, to)

\* for (i = from; i > to; --i) lineBuffer[i] = lineBuffer[i - 1].
RECURSIVE OpenGap(_, _, _)
OpenGap(le, from, to) ==
    IF from <= to THEN le
    ELSE IF from \notin DOMAIN le.lineBuffer \/ (from - 1) \notin DOMAIN le.lineBuffer
    THEN [le EXCEPT !.aborted = TRUE]
    ELSE OpenGap(PutChar(le, from, le.lineBuffer[from - 1]), from - 1, to)

\* The call op has returned handled.
Edited(le, op, handled) == [le EXCEPT !.op = op, !.handled = handled]

\* delChar without the test of the cursor position.
DelCharAnywhere(le) ==
    Edited(CloseGap([le EXCEPT !.lineBufferUsed = @ - 1],
                    le.lineBufferInsertionPos, le.lineBufferUsed - 1),
           "delChar", TRUE)

\* SimpleCommandTerminal::popChar.
PopChar(le) ==
    IF le.lineBufferUsed = 0 \/ le.lineBufferInsertionPos <= 0
    THEN Edited(le, "popChar", TRUE)
    ELSE IF le.lineBufferInsertionPos = le.lineBufferUsed
    THEN Edited(PutChar([le EXCEPT !.lineBufferUsed = @ - 1,
                                   !.lineBufferInsertionPos = @ - 1],
                        le.lineBufferUsed - 1, NUL),
                "popChar", TRUE)
    ELSE Edited(CloseGap([le EXCEPT !.lineBufferUsed = @ - 1,
                                    !.lineBufferInsertionPos = @ - 1],
                         le.lineBufferInsertionPos - 1, le.lineBufferUsed - 1),
                "popChar", TRUE)

\* SimpleCommandTerminal::delChar.
DelChar(le) ==
    IF le.lineBufferUsed = 0 \/ le.lineBufferInsertionPos = le.lineBufferUsed
    THEN Edited(le, "delChar", TRUE)
    ELSE Edited(CloseGap([le EXCEPT !.lineBufferUsed = @ - 1],
                         le.lineBufferInsertionPos, le.lineBufferUsed - 1),
                "delChar", TRUE)

\* SimpleCommandTerminal::insertChar; printable is what std::isprint(chr)
\* returned.
InsertChar(le, chr, printable) ==
    IF ~printable \/ le.lineBufferUsed >= LineBufferMaxSize - 1
    THEN Edited(le, "insertChar", FALSE)
    ELSE IF le.lineBufferInsertionPos = le.lineBufferUsed
    THEN Edited(PutChar(PutChar([le EXCEPT !.lineBufferUsed = @ + 1,
                                           !.lineBufferInsertionPos = @ + 1],
                                le.lineBufferUsed, chr),
                        le.lineBufferUsed + 1, NUL),
                "insertChar", TRUE)
    ELSE Edited(PutChar(PutChar([OpenGap(le, le.lineBufferUsed, le.lineBufferInsertionPos)
                                    EXCEPT !.lineBufferUsed = @ + 1,
                                           !.lineBufferInsertionPos = @ + 1],
                                le.lineBufferInsertionPos, chr),
                        le.lineBufferUsed + 1, NUL),
                "insertChar", TRUE)

\* SimpleCommandTerminal::navigateTextLeft.
NavigateTextLeft(le) ==
    IF le.lineBufferInsertionPos <= 0 THEN Edited(le, "navigateTextLeft", TRUE)
    ELSE Edited([le EXCEPT !.lineBufferInsertionPos = @ - 1], "navigateTextLeft", TRUE)

\* SimpleCommandTerminal::navigateTextRight.
NavigateTextRight(le) ==
    IF le.lineBufferInsertionPos >= le.lineBufferUsed
    THEN Edited(le, "navigateTextRight", TRUE)
    ELSE Edited([le EXCEPT !.lineBufferInsertionPos = @ + 1], "navigateTextRight", TRUE)

\* Characters typed: two printable ones, a control character, and a
\* character above 127, which is negative as a char: std::isprint of it is
\* not defined, and either answer is taken.
TypedChars == {"a", "b", "\t", "high"}

IsPrintAnswers(chr) ==
    IF chr = "high" THEN {TRUE, FALSE}
    ELSE IF chr = "\t" THEN {FALSE}
    ELSE {TRUE}

InitEdit == InitCmd

EditReturned(le) ==
    /\ lineEdit' = le
    /\ UNCHANGED << cmdVars, cvarVars, splitIn, convIn, hashTable, regVars, cfgFile,
                    termVars >>

CallInsertChar ==
    \E chr \in TypedChars : \E printable \in IsPrintAnswers(chr) :
        /\ ~lineEdit.aborted
        /\ EditReturned(InsertChar(lineEdit, chr, printable))

CallPopChar == ~lineEdit.aborted /\ EditReturned(PopChar(lineEdit))

CallDelChar == ~lineEdit.aborted /\ EditReturned(DelChar(lineEdit))

CallNavigateTextLeft == ~lineEdit.aborted /\ EditReturned(NavigateTextLeft(lineEdit))

CallNavigateTextRight == ~lineEdit.aborted /\ EditReturned(NavigateTextRight(lineEdit))

NextEdit ==
    \/ CallInsertChar
    \/ CallPopChar
    \/ CallDelChar
    \/ CallNavigateTextLeft
    \/ CallNavigateTextRight

SpecEdit == InitEdit /\ [][NextEdit]_vars

\* C20: after each insertChar, popChar and delChar, at every cursor
\* position the arrow keys reach, 0 <= cursor <= used <= capacity; no call
\* writes outside of the buffer.
C20_CursorWithinUsed ==
    /\ 0 <= lineEdit.lineBufferInsertionPos
    /\ lineEdit.lineBufferInsertionPos <= lineEdit.lineBufferUsed
    /\ lineEdit.lineBufferUsed <= LineBufferMaxSize
    /\ ~lineEdit.aborted

\* A character was deleted in the middle of a full buffer.
C20_Witness ==
    /\ lineEdit.op = "delChar"
    /\ lineEdit.lineBufferUsed = LineBufferMaxSize - 2
    /\ 0 < lineEdit.lineBufferInsertionPos
    /\ lineEdit.lineBufferInsertionPos < lineEdit.lineBufferUsed

-----------------------------------------------------------------------------
(* Config files: cmdSaveConfig writes the file, cmdReloadConfig runs every  *)
(* line of it through execNow, where the lines reach cmdSet and cmdAlias.   *)
(* The program's MaxCommandArgStrLength (2048) and MaxCommandArguments (64) *)
(* hold every line written here; the lines are run with sizes that hold    *)
(* them too.                                                                *)

\* The words of the config file, as character sequences.
OptPersistent ==
    << "-", "p", "e", "r", "s", "i", "s", "t", "e", "n", "t" >>

OptVolatile ==
    << "-", "v", "o", "l", "a", "t", "i", "l", "e" >>

OptReadOnly ==
    << "-", "r", "e", "a", "d", "o", "n", "l", "y" >>

OptInitOnly ==
    << "-", "i", "n", "i", "t", "o", "n", "l", "y" >>

OptModified ==
    << "-", "m", "o", "d", "i", "f", "i", "e", "d" >>

OptNoCreate ==
    << "-", "n", "o", "c", "r", "e", "a", "t", "e" >>

OptInsert ==
    << "-", "i", "n", "s", "e", "r", "t" >>

OptImmediate ==
    << "-", "i", "m", "m", "e", "d", "i", "a", "t", "e" >>

OptAppend ==
    << "-", "a", "p", "p", "e", "n", "d" >>

HeaderGenerated ==
    << "#", " ", "F", "i", "l", "e", " ", "a", "u", "t", "o", "m", "a",
       "t", "i", "c", "a", "l", "l", "y", " ", "g", "e", "n", "e", "r",
       "a", "t", "e", "d", " ", "b", "y", " ", "l", "i", "b", " ", "c",
       "o", "n", "f", "i", "g", ";", "\n" >>

HeaderDoNotModify ==
    << "#", " ", "D", "o", " ", "n", "o", "t", " ", "m", "o", "d", "i",
       "f", "y", ".", "\n" >>

HeaderRule ==
    << "#", "\n" >>

HeaderCVars ==
    << "#", " ", "C", "V", "a", "r", "s", ":", "\n" >>

HeaderAliases ==
    << "#", " ", "C", "o", "m", "m", "a", "n", "d", " ", "a", "l", "i",
       "a", "s", "e", "s", ":", "\n" >>

SetPrefix ==
    << "s", "e", "t", " " >>

AliasPrefix ==
    << "a", "l", "i", "a", "s", " " >>

SetName ==
    << "s", "e", "t" >>

ResetName ==
    << "r", "e", "s", "e", "t" >>

AliasName ==
    << "a", "l", "i", "a", "s" >>

ConfigLineSize == 40

ConfigMaxArguments == 7

\* The option words of cmdSet, in the order toCfgString writes them.
CfgFlagOrder == << "Persistent", "Volatile", "ReadOnly", "InitOnly", "Modified" >>

CfgFlagWord(flag) ==
    CASE flag = "Persistent" -> OptPersistent
      [] flag = "Volatile"   -> OptVolatile
      [] flag = "ReadOnly"   -> OptReadOnly
      [] flag = "InitOnly"   -> OptInitOnly
      [] flag = "Modified"   -> OptModified

\* toCfgString: varFlagsString, from option k on.
RECURSIVE VarFlagsString(_, _)
VarFlagsString(flags, k) ==
    IF k > Len(CfgFlagOrder) THEN << >>
    ELSE (IF CfgFlagOrder[k] \in flags THEN CfgFlagWord(CfgFlagOrder[k]) \o << " " >>
          ELSE << >>) \o VarFlagsString(flags, k + 1)

\* The value as toCfgString prints it: quoted for a string or enum variable.
CfgValue(cvar) ==
    IF cvar.type \in {"String", "Enum"}
    THEN << "\"" >> \o CVarGetStringValue(cvar) \o << "\"" >>
    ELSE CVarGetStringValue(cvar)

\* CVarImplBase::toCfgString.
ToCfgString(cvar) ==
    IF "UserDefined" \in cvar.flags /\ VarFlagsString(cvar.flags, 1) # << >>
    THEN SetPrefix \o cvar.name \o << " " >> \o CfgValue(cvar) \o << " " >>
             \o VarFlagsString(cvar.flags, 1)
    ELSE SetPrefix \o cvar.name \o << " " >> \o CfgValue(cvar)

\* CommandImplAlias::toCfgString of an alias without description.
AliasToCfgString(cmd) ==
    AliasPrefix \o cmd.name \o << " ", "\"" >> \o cmd.targetCommand \o << "\"", " " >>
        \o (CASE cmd.execMode = "Insert" -> OptInsert
              [] cmd.execMode = "Immediate" -> OptImmediate
              [] OTHER -> OptAppend)

\* The lines writeFormat("%s\n", ...) adds for the persistent variables, in
\* the order of the chain.
RECURSIVE CVarCfgLines(_)
CVarCfgLines(table) ==
    IF table = << >> THEN << >>
    ELSE (IF IsPersistent(Head(table)) THEN << ToCfgString(Head(table)) \o << "\n" >> >>
          ELSE << >>)
         \o CVarCfgLines(Tail(table))

\* The lines it adds for the aliases, in the order of the chain.
RECURSIVE AliasCfgLines(_)
AliasCfgLines(table) ==
    IF table = << >> THEN << >>
    ELSE (IF IsAlias(Head(table)) THEN << AliasToCfgString(Head(table)) \o << "\n" >> >>
          ELSE << >>)
         \o AliasCfgLines(Tail(table))

\* cmdSaveConfig: the lines of the file.
SaveConfigLines(cvars, cmds, aliasCount) ==
    << HeaderRule, HeaderGenerated, HeaderDoNotModify, HeaderRule >>
    \o (IF Len(cvars) > 0
        THEN << << "\n" >>, HeaderCVars >> \o CVarCfgLines(cvars)
        ELSE << >>)
    \o (IF aliasCount > 0
        THEN << << "\n" >>, HeaderAliases >> \o AliasCfgLines(cmds)
        ELSE << >>)
    \o << << "\n" >> >>

\* The tokenizer on a config line.
ParseConfigArgs(line) ==
    ParseLoop(line, 1, QuoteStart, 0,
              [ArgsStart EXCEPT !.maxArgStrLength = ConfigLineSize,
                                !.maxArguments = ConfigMaxArguments])

\* cmdSet: the flags named by the arguments from the third on.
SetFlagsOf(args) ==
    {"UserDefined"} \cup
    {CfgFlagOrder[k] : k \in {j \in 1..Len(CfgFlagOrder) :
                                \E i \in 3..Len(args) : args[i] = CfgFlagWord(CfgFlagOrder[j])}}

\* cmdSet on the registries reg = [cvars, cmds, aliasCount, allowRom,
\* allowInit].
CmdSetArgs(reg, args) ==
    IF Len(args) < 2 THEN reg
    ELSE IF FindCVar(reg.cvars, args[1]) = NoEntry
    THEN IF \E i \in 3..Len(args) : args[i] = OptNoCreate THEN reg
         ELSE [reg EXCEPT !.cvars = RegisterCVar(reg.cvars, args[1], "String",
                                                 SetFlagsOf(args), args[2],
                                                 AllowedStrings(FALSE, << >>))]
    ELSE [reg EXCEPT !.cvars =
              UpdateEntry(reg.cvars,
                          InternalSetStringValue(FindCVar(reg.cvars, args[1]), args[2],
                                                 reg.allowRom, reg.allowInit).cvar)]

\* cmdAlias: the exec mode the third argument names.
AliasModeOf(word) ==
    IF word = OptInsert THEN "Insert"
    ELSE IF word = OptImmediate THEN "Immediate"
    ELSE "Append"

\* cmdAlias with createCommandAlias.
CmdAliasArgs(reg, args) ==
    IF Len(args) < 3 \/ args[2] = << >> THEN reg
    ELSE IF ~RegisterCmdPreValidate(reg.cmds, reg.cvars, args[1]) THEN reg
    ELSE [reg EXCEPT !.cmds = LinkWithKey(reg.cmds, NewAlias(args[1], args[2],
                                                             AliasModeOf(args[3]))),
                     !.aliasCount = @ + 1]

\* cmdReset.
CmdResetArgs(reg, args) ==
    IF Len(args) # 1 THEN reg
    ELSE IF FindCVar(reg.cvars, args[1]) = NoEntry THEN reg
    ELSE [reg EXCEPT !.cvars =
              UpdateEntry(reg.cvars,
                          InternalSetDefaultValue(FindCVar(reg.cvars, args[1]),
                                                  reg.allowRom, reg.allowInit).cvar)]

\* execTokenized of a config command: the command is looked up in the
\* registry and its handler run; no command is disabled in this part, and
\* the name buffer holds "set" and "alias" as the program's does.
ExecConfigCommand(reg, a) ==
    IF a.crashed \/ ~a.hasName THEN reg
    ELSE IF FindByKey(reg.cmds, a.cmdName) = NoEntry THEN reg
    ELSE IF FindByKey(reg.cmds, a.cmdName).name = SetName THEN CmdSetArgs(reg, a.args)
    ELSE IF FindByKey(reg.cmds, a.cmdName).name = AliasName THEN CmdAliasArgs(reg, a.args)
    ELSE IF FindByKey(reg.cmds, a.cmdName).name = ResetName THEN CmdResetArgs(reg, a.args)
    ELSE reg

RECURSIVE ExecConfigLoop(_, _, _)

\* execNow(line): one turn of the loop, r being what extractNextCommand
\* returned.
ExecConfigStep(reg, line, r) ==
    IF ~r.found \/ r.overflowed THEN reg
    ELSE ExecConfigLoop(ExecConfigCommand(reg, ParseConfigArgs(r.dest)), line, r.next)

ExecConfigLoop(reg, line, i) ==
    ExecConfigStep(reg, line, ExtractNextCommand(reg.cvars, line, i, ConfigLineSize))

\* execConfigFile: one line; blank lines and comments are skipped, every
\* other line is run with execNow.
ExecConfigLine(reg, line) ==
    IF line = << >> \/ line[1] \in {"\n", "#"} THEN reg
    ELSE IF Len(line) >= 2 /\ line[1] = "/" /\ line[2] = "/" THEN reg
    ELSE ExecConfigLoop(reg, line, 1)

\* execConfigFile: the scan of the file, st = [lineNum, reg] being the
\* count of the lines read and the registries they left.
RECURSIVE ExecConfigFile(_, _)
ExecConfigFile(st, lines) ==
    IF st.lineNum >= Len(lines) THEN st.reg
    ELSE ExecConfigFile([lineNum |-> st.lineNum + 1,
                         reg |-> ExecConfigLine(st.reg, lines[st.lineNum + 1])],
                        lines)

\* registerDefaultCommands: the commands a config file is made of.
RegisterDefaultCommands(cmds) ==
    LinkWithKey(LinkWithKey(LinkWithKey(cmds, NewCommand(AliasName, {}, 0 - 1, 0 - 1)),
                            NewCommand(ResetName, {}, 0 - 1, 0 - 1)),
                NewCommand(SetName, {}, 0 - 1, 0 - 1))

ConfigStartupCommands == RegisterDefaultCommands(StartupCommands)

\* The application start-up of this part: a persistent string variable, a
\* persistent read-only one, the commands and aliases of
\* ConfigStartupCommands.
ConfigStartupCVars ==
    RegisterCVar(RegisterCVar(<< >>, << "v" >>, "String", {"Persistent"}, << "a" >>,
                              AllowedStrings(FALSE, << >>)),
                 << "w" >>, "String", {"Persistent", "ReadOnly"}, << "a" >>,
                 AllowedStrings(FALSE, << >>))

ConfigValues == { << "a" >>, << "b" >> }

\* Arguments of the set commands the user types: user-defined variables.
ConfigSetMenu ==
    { << << "u" >>, << "a" >> >>,
      << << "u" >>, << "b" >>, OptPersistent >>,
      << << "y" >>, << "a" >>, OptPersistent, OptReadOnly >> }

InitConfig ==
    /\ cmdBuffer = << >>
    /\ registeredCommands = ConfigStartupCommands
    /\ disabledCmdFlags = {}
    /\ aborted = FALSE
    /\ lastExec = IdleExec
    /\ registeredCVars = ConfigStartupCVars
    /\ allowWritingRomCVars = FALSE
    /\ allowWritingInitCVars = FALSE
    /\ lastCVarOp = IdleCVarOp
    /\ splitIn = IdleSplit
    /\ convIn = IdleConv
    /\ MoreIdle

ConfigReg ==
    [cvars |-> registeredCVars, cmds |-> registeredCommands, aliasCount |-> cmdAliasCount,
     allowRom |-> allowWritingRomCVars, allowInit |-> allowWritingInitCVars]

\* A call has left the registries reg and the file file.
ConfigReturned(reg, file) ==
    /\ registeredCVars' = reg.cvars
    /\ registeredCommands' = reg.cmds
    /\ cmdAliasCount' = reg.aliasCount
    /\ allowWritingRomCVars' = reg.allowRom
    /\ allowWritingInitCVars' = reg.allowInit
    /\ cfgFile' = file
    /\ UNCHANGED << cmdBuffer, disabledCmdFlags, aborted, lastExec, lastCVarOp, splitIn,
                    convIn, hashTable, lastRegOp, removedCVars, lineEdit, termVars >>

\* cvar->setStringValue(value) on a registered variable.
CallConfigSetStringValue ==
    \E k \in 1..Len(registeredCVars), value \in ConfigValues :
        ConfigReturned([ConfigReg EXCEPT !.cvars =
                           UpdateEntry(registeredCVars,
                                       SetStringValue(registeredCVars[k], value).cvar)],
                       [cfgFile EXCEPT !.op = "setStringValue", !.ran = TRUE,
                                       !.prev = cfgFile.op])

\* The user runs "set <name> <value> [flags]".
CallCmdSet ==
    \E args \in ConfigSetMenu :
        ConfigReturned(CmdSetArgs(ConfigReg, args),
                       [cfgFile EXCEPT !.op = "set", !.ran = TRUE, !.prev = cfgFile.op])

\* cmdSaveConfig with a file that opens: the file is written, the Modified
\* flag of every variable cleared.  The file record keeps the registries as
\* the command left them.
CallCmdSaveConfig ==
    ConfigReturned([ConfigReg EXCEPT !.cvars = SaveConfigClear(registeredCVars)],
                   [exists |-> TRUE,
                    lines |-> SaveConfigLines(registeredCVars, registeredCommands,
                                              cmdAliasCount),
                    cvars |-> SaveConfigClear(registeredCVars),
                    cmds |-> registeredCommands,
                    op |-> "saveConfig", ran |-> TRUE, prev |-> cfgFile.op])

\* cmdReloadConfig [-force]: refused when a variable is modified and -force
\* is not given; else the file is run between
\* setAllowWritingReadOnlyVars(true) and setAllowWritingReadOnlyVars(false),
\* which set allowWritingRomCVars and allowWritingInitCVars alike.
CmdReloadConfig(reg, file, forceReload) ==
    IF ModifiedNames(reg.cvars) # {} /\ ~forceReload THEN reg
    ELSE IF ~file.exists THEN reg
    ELSE [ExecConfigFile([lineNum |-> 0,
                          reg |-> [reg EXCEPT !.allowRom = TRUE, !.allowInit = TRUE]],
                         file.lines)
             EXCEPT !.allowRom = FALSE, !.allowInit = FALSE]

CallCmdReloadConfig ==
    \E forceReload \in BOOLEAN :
        /\ ConfigReturned(CmdReloadConfig(ConfigReg, cfgFile, forceReload),
                          [cfgFile EXCEPT !.op = "reloadConfig",
                                          !.ran = (ModifiedNames(registeredCVars) = {}
                                                   \/ forceReload) /\ cfgFile.exists,
                                          !.prev = cfgFile.op])

NextConfig ==
    \/ CallConfigSetStringValue
    \/ CallCmdSet
    \/ CallCmdSaveConfig
    \/ CallCmdReloadConfig

SpecConfig == InitConfig /\ [][NextConfig]_vars

\* reloadConfig has run the file straight after saveConfig wrote it.
ReloadedAfterSave ==
    cfgFile.op = "reloadConfig" /\ cfgFile.ran /\ cfgFile.prev = "saveConfig"

\* The saved variable is back with its name, type and value.
SameVariable(saved, now) ==
    /\ now # NoEntry
    /\ now.name = saved.name
    /\ now.type = saved.type
    /\ now.currentValue = saved.currentValue

\* The alias is back with its target text and exec mode.
SameAlias(saved, now) ==
    /\ now # NoEntry
    /\ IsAlias(now)
    /\ now.name = saved.name
    /\ now.targetCommand = saved.targetCommand
    /\ now.execMode = saved.execMode

\* C11: after a save followed by a reload every saved CVar is back with the
\* same name, type, value and flags, its Modified flag clear, and every
\* alias is back with the same target text and exec mode.
C11_SaveReloadRoundTrip ==
    ReloadedAfterSave =>
        /\ \A k \in 1..Len(cfgFile.cvars) :
              IsPersistent(cfgFile.cvars[k]) =>
                  /\ SameVariable(cfgFile.cvars[k],
                                  FindCVar(registeredCVars, cfgFile.cvars[k].name))
                  /\ FindCVar(registeredCVars, cfgFile.cvars[k].name).flags
                        = cfgFile.cvars[k].flags
                  /\ ~IsModified(FindCVar(registeredCVars, cfgFile.cvars[k].name))
        /\ \A k \in 1..Len(cfgFile.cmds) :
              IsAlias(cfgFile.cmds[k]) =>
                  SameAlias(cfgFile.cmds[k],
                            FindByKey(registeredCommands, cfgFile.cmds[k].name))

\* What the round trip gives: names, types, values and the flags other than
\* Modified come back, and so do the aliases.
SaveReloadKeepsValues ==
    ReloadedAfterSave =>
        /\ \A k \in 1..Len(cfgFile.cvars) :
              IsPersistent(cfgFile.cvars[k]) =>
                  /\ SameVariable(cfgFile.cvars[k],
                                  FindCVar(registeredCVars, cfgFile.cvars[k].name))
                  /\ FindCVar(registeredCVars, cfgFile.cvars[k].name).flags \ {"Modified"}
                        = cfgFile.cvars[k].flags
        /\ \A k \in 1..Len(cfgFile.cmds) :
              IsAlias(cfgFile.cmds[k]) =>
                  SameAlias(cfgFile.cmds[k],
                            FindByKey(registeredCommands, cfgFile.cmds[k].name))

SaveReloadKeepsValuesReached ==
    /\ ReloadedAfterSave
    /\ \E k \in 1..Len(cfgFile.cvars) : "UserDefined" \in cfgFile.cvars[k].flags

-----------------------------------------------------------------------------
(* SimpleCommandTerminal: the command history (cfg.cpp:4995-5015,           *)
(* 5284-5305).  h is [cmdHistory, indexCmdHistory, currCmdInHistory].       *)

\* A faulty shift that moves the entries the other way.
ShiftHistoryUp(cmdHistory, used) ==
    [i \in DOMAIN cmdHistory |-> IF 0 < i /\ i < used THEN cmdHistory[i - 1] ELSE cmdHistory[i]]

\* The loop "cmdHistory[i] = cmdHistory[i + 1]" for i from 0 to used - 2.
ShiftHistory(cmdHistory, used) ==
    [i \in DOMAIN cmdHistory |-> IF i < used - 1 THEN cmdHistory[i + 1] ELSE cmdHistory[i]]

\* SimpleCommandTerminal::addCmdToHistory.
AddCmdToHistory(h, cmd) ==
    IF h.indexCmdHistory < CmdHistoryMaxSize
    THEN [h EXCEPT !.cmdHistory[h.indexCmdHistory] = cmd,
                   !.indexCmdHistory = h.indexCmdHistory + 1,
                   !.currCmdInHistory = h.indexCmdHistory]
    ELSE [h EXCEPT !.cmdHistory =
                       [ShiftHistory(h.cmdHistory, h.indexCmdHistory)
                            EXCEPT ![h.indexCmdHistory - 1] = cmd],
                   !.currCmdInHistory = h.indexCmdHistory - 1]

\* SimpleCommandTerminal::clearCommandHistory.
ClearCommandHistory(h) ==
    [h EXCEPT !.cmdHistory = [i \in DOMAIN h.cmdHistory |-> << >>],
              !.indexCmdHistory = 0, !.currCmdInHistory = 0]

\* The command lines that are added.
HistoryCmds == { << "a" >>, << "b" >>, << "a", " ", "b" >> }

InitHistory == InitCmd

historyOthers == << cmdVars, cvarVars, splitIn, convIn, hashTable, regVars, ioVars, nameIn,
                   startup, tokIn, term, input >>

\* A history call has returned h; the record keeps the slots and the count
\* the call found.
HistoryReturned(op, cmd, h) ==
    /\ history' = [h EXCEPT !.op = op, !.cmd = cmd, !.before = history.cmdHistory,
                            !.usedBefore = history.indexCmdHistory]
    /\ UNCHANGED historyOthers

CallAddCmdToHistory ==
    \E cmd \in HistoryCmds :
        HistoryReturned("addCmdToHistory", cmd, AddCmdToHistory(history, cmd))

CallClearCommandHistory ==
    HistoryReturned("clearCommandHistory", << >>, ClearCommandHistory(history))

NextHistory ==
    \/ CallAddCmdToHistory
    \/ CallClearCommandHistory

SpecHistory == InitHistory /\ [][NextHistory]_vars

\* C21: addCmdToHistory appends while the history is not full; on a full
\* history it drops the oldest entry, moves every other entry down by one
\* slot in the same order and stores the command in the last slot; the
\* count of entries never exceeds the capacity.
C21_HistoryRing ==
    /\ history.indexCmdHistory <= CmdHistoryMaxSize
    /\ history.op = "addCmdToHistory" =>
          IF history.usedBefore < CmdHistoryMaxSize
          THEN /\ history.indexCmdHistory = history.usedBefore + 1
               /\ history.cmdHistory[history.usedBefore] = history.cmd
               /\ \A i \in 0..(history.usedBefore - 1) :
                     history.cmdHistory[i] = history.before[i]
          ELSE /\ history.indexCmdHistory = CmdHistoryMaxSize
               /\ history.cmdHistory[CmdHistoryMaxSize - 1] = history.cmd
               /\ \A i \in 0..(CmdHistoryMaxSize - 2) :
                     history.cmdHistory[i] = history.before[i + 1]

\* An add on a full history of distinct entries has happened.
C21_Witness ==
    /\ history.op = "addCmdToHistory"
    /\ history.usedBefore = CmdHistoryMaxSize
    /\ history.before[0] # history.before[1]
    /\ history.cmd # history.before[CmdHistoryMaxSize - 1]

-----------------------------------------------------------------------------
(* The naming rule of CVars against CVarManagerImpl::isValidCVarName.       *)

MaxNameLen == 3

NameAlphabet == {"a", "1", "_", ".", "-"}

RECURSIVE NamesOfLen(_)
NamesOfLen(n) ==
    IF n = 0 THEN { << >> }
    ELSE {Append(s, c) : s \in NamesOfLen(n - 1), c \in NameAlphabet}

NameTexts == UNION {NamesOfLen(n) : n \in 0..MaxNameLen}

\* The rule: a letter or '_' first, then letters, digits, '_' and '.', every
\* '.' followed by a letter or '_', no '.' at the end.
NamingRule(name) ==
    /\ name # << >>
    /\ IsLetter(name[1]) \/ name[1] = "_"
    /\ \A i \in 2..Len(name) :
          IsLetter(name[i]) \/ IsDigit(name[i]) \/ name[i] \in {"_", "."}
    /\ \A i \in 1..Len(name) :
          name[i] = "." => /\ i < Len(name)
                           /\ IsLetter(name[i + 1]) \/ name[i + 1] = "_"

InitName ==
    /\ cmdBuffer = << >>
    /\ registeredCommands = StartupCommands
    /\ disabledCmdFlags = {}
    /\ aborted = FALSE
    /\ lastExec = IdleExec
    /\ registeredCVars = StartupCVars
    /\ allowWritingRomCVars = FALSE
    /\ allowWritingInitCVars = FALSE
    /\ lastCVarOp = IdleCVarOp
    /\ splitIn = IdleSplit
    /\ convIn = IdleConv
    /\ RegIoIdle
    /\ input = NewInput
    /\ term = NewTerm
    /\ tokIn = IdleTok
    /\ startup = IdleStartup
    /\ history = NewHistory
    /\ nameIn \in {[name |-> n, applied |-> FALSE, valid |-> FALSE] : n \in NameTexts}

nameInOthers == << cmdVars, cvarVars, splitIn, convIn, hashTable, regVars, ioVars, history,
                  startup, tokIn, term, input >>

\* cvarManager->isValidCVarName(name).
CallIsValidCVarName ==
    /\ ~nameIn.applied
    /\ nameIn' = [nameIn EXCEPT !.applied = TRUE, !.valid = IsValidCVarName(nameIn.name)]
    /\ UNCHANGED nameInOthers

NextName == CallIsValidCVarName

SpecName == InitName /\ [][NextName]_vars

\* C22: isValidCVarName accepts exactly the names of the naming rule.
C22_AcceptsExactlyTheRule ==
    nameIn.applied => (nameIn.valid <=> NamingRule(nameIn.name))

\* Without a '_' after the first character the function and the rule agree.
NoUnderscoreInBody(name) == \A i \in 2..Len(name) : name[i] # "_"

AcceptsTheRuleWithoutUnderscore ==
    nameIn.applied /\ NoUnderscoreInBody(nameIn.name)
        => (nameIn.valid <=> NamingRule(nameIn.name))

AcceptsTheRuleWithoutUnderscoreReached ==
    /\ nameIn.applied
    /\ nameIn.valid
    /\ \E i \in 2..Len(nameIn.name) : nameIn.name[i] = "."

-----------------------------------------------------------------------------
(* CommandManagerImpl::execStartupCommandLine (cfg.cpp:4303-4370).  argv    *)
(* is the argument list without the program name.  The cmdline array and    *)
(* the command buffer have the size ConfigLineSize here, which holds every  *)
(* line of the command lines explored.                                      *)

\* The words of the startup command lines.
PlusSet == << "+", "s", "e", "t" >>

PlusReset == << "+", "r", "e", "s", "e", "t" >>

PlusP == << "+", "p" >>

Plus == << "+" >>

BootMode == << "b", ".", "m" >>

Cold == << "c", "o", "l", "d" >>

Warm == << "w", "a", "r", "m" >>

Hot == << "h", "o", "t" >>

\* execAppend on a command buffer of the given size.
ExecAppendTo(buf, str, bufferSize) ==
    IF str = << >> THEN buf
    ELSE IF Len(buf) + (Len(str) + 1) >= bufferSize THEN buf
    ELSE buf \o str \o << CommandTextSeparator >>

\* The locals of the call with the registries and the buffer: s is
\* [reg, buf, cmdline, length, setCmd, stopped, overrun, ranNow, appended].
\* ranNow lists the lines given to execNow, each with the allowWritingInitCVars
\* it ran under; appended lists the lines given to execAppend.
StartupLocals(reg, buf) ==
    [reg |-> reg, buf |-> buf, cmdline |-> << >>, length |-> 0, setCmd |-> FALSE,
     stopped |-> FALSE, overrun |-> FALSE, ranNow |-> << >>, appended |-> << >>]

\* "if (length > 0) { if (setCmd) execNow(cmdline); else execAppend(cmdline); }"
FlushStartupLine(s) ==
    IF s.length <= 0 THEN s
    ELSE IF s.setCmd
    THEN [s EXCEPT !.reg = ExecConfigLoop(s.reg, s.cmdline, 1),
                   !.ranNow = Append(@, [line |-> s.cmdline,
                                         allowInit |-> s.reg.allowInit])]
    ELSE [s EXCEPT !.buf = ExecAppendTo(s.buf, s.cmdline, ConfigLineSize),
                   !.appended = Append(@, s.cmdline)]

\* The copy of arg at ptr, followed by ' ' and the terminator; the terminator
\* lands behind the array when the copy fills what was left of it.
CopyStartupArg(s, arg) ==
    IF (ConfigLineSize - s.length - 1) <= 0 THEN [s EXCEPT !.stopped = TRUE]
    ELSE [s EXCEPT !.cmdline = @ \o CopyString(ConfigLineSize - s.length, arg) \o << " " >>,
                   !.length = @ + Len(CopyString(ConfigLineSize - s.length, arg)) + 1,
                   !.overrun = @ \/ Len(arg) >= ConfigLineSize - s.length - 1]

\* One turn of the loop over argv.
StartupArg(s, arg) ==
    IF arg # << >> /\ arg[1] = "+"
    THEN CopyStartupArg([FlushStartupLine(s) EXCEPT
                             !.cmdline = << >>, !.length = 0,
                             !.setCmd = Tail(arg) \in {SetName, ResetName}],
                        Tail(arg))
    ELSE CopyStartupArg(s, arg)

RECURSIVE StartupLoop(_, _, _)
StartupLoop(s, argv, i) ==
    IF i > Len(argv) \/ s.stopped THEN s
    ELSE StartupLoop(StartupArg(s, argv[i]), argv, i + 1)

\* A faulty variant that leaves the init-only override on.
ExecStartupOverrideLeftOn(reg, buf, argv) ==
    FlushStartupLine(StartupLoop(StartupLocals([reg EXCEPT !.allowInit = TRUE], buf),
                                 argv, 1))

\* execStartupCommandLine: setAllowWritingInitOnlyVars(true), the loop, the
\* last line, setAllowWritingInitOnlyVars(false).
ExecStartupCommandLine(reg, buf, argv) ==
    [FlushStartupLine(StartupLoop(StartupLocals([reg EXCEPT !.allowInit = TRUE], buf),
                                  argv, 1))
        EXCEPT !.reg.allowInit = FALSE]

\* The variables of the application: the init-only boot.mode, written b.m,
\* and the plain v.
StartupStageCVars ==
    RegisterCVar(RegisterCVar(<< >>, << "v" >>, "String", {}, << "a" >>,
                              AllowedStrings(FALSE, << >>)),
                 BootMode, "String", {"InitOnly"}, Cold, AllowedStrings(FALSE, << >>))

\* The command lines the program is started with.
StartupArgvMenu ==
    { << PlusSet, BootMode, Warm >>,
      << Plus, SetName, BootMode, Warm >>,
      << SetName, BootMode, Warm, PlusP >>,
      << PlusP, PlusSet, << "v" >>, << "b" >> >>,
      << PlusSet, BootMode, Warm, PlusReset, BootMode >>,
      << PlusP, << "a" >>, Plus, << "a" >> >> }

\* The set commands run later: << name, value >>.
RuntimeSetMenu ==
    { << BootMode, Hot >>, << BootMode, Cold >>, << << "v" >>, Hot >>,
      << << "v" >>, << "b" >> >>, << << "v" >>, << "a" >> >>, << << "u" >>, << "a" >> >> }

InitStartup ==
    /\ cmdBuffer = << >>
    /\ registeredCommands = ConfigStartupCommands
    /\ disabledCmdFlags = {}
    /\ aborted = FALSE
    /\ lastExec = IdleExec
    /\ registeredCVars = StartupStageCVars
    /\ allowWritingRomCVars = FALSE
    /\ allowWritingInitCVars = FALSE
    /\ lastCVarOp = IdleCVarOp
    /\ splitIn = IdleSplit
    /\ convIn = IdleConv
    /\ MoreIdle

\* A call has left the registries reg, the buffer buf and the record rec.
StartupReturned(reg, buf, rec) ==
    /\ registeredCVars' = reg.cvars
    /\ registeredCommands' = reg.cmds
    /\ cmdAliasCount' = reg.aliasCount
    /\ allowWritingRomCVars' = reg.allowRom
    /\ allowWritingInitCVars' = reg.allowInit
    /\ cmdBuffer' = buf
    /\ startup' = rec
    /\ UNCHANGED << disabledCmdFlags, aborted, lastExec, lastCVarOp, splitIn, convIn,
                    hashTable, lastRegOp, removedCVars, ioVars, history, nameIn,
                    tokIn, term, input >>

\* What the call has left, s being the locals at its return.
StartupDone(argv, s) ==
    StartupReturned(s.reg, s.buf,
                    [done |-> TRUE, argv |-> argv, ranNow |-> s.ranNow,
                     appended |-> s.appended, op |-> "execStartupCommandLine",
                     name |-> << >>, ok |-> FALSE])

\* main: cmdManager->execStartupCommandLine(argc, argv), once.
CallExecStartupCommandLine ==
    \E argv \in StartupArgvMenu :
        /\ ~startup.done
        /\ StartupDone(argv, ExecStartupCommandLine(ConfigReg, cmdBuffer, argv))

\* "set <name> <value>" run at any time: execNow of the line.  ok is what
\* internalSetStringValue returns in cmdSet.
CallRuntimeSet ==
    \E nv \in RuntimeSetMenu :
        StartupReturned(ExecConfigLoop(ConfigReg,
                                       SetPrefix \o nv[1] \o << " " >> \o nv[2], 1),
                        cmdBuffer,
                        [startup EXCEPT
                            !.op = "set", !.name = nv[1],
                            !.ok = /\ FindCVar(registeredCVars, nv[1]) # NoEntry
                                   /\ InternalSetStringValue(
                                          FindCVar(registeredCVars, nv[1]), nv[2],
                                          allowWritingRomCVars, allowWritingInitCVars).ok])

\* "reset <name>" run at any time.
CallRuntimeReset ==
    \E name \in {BootMode, << "v" >>} :
        StartupReturned(ExecConfigLoop(ConfigReg, ResetName \o << " " >> \o name, 1),
                        cmdBuffer,
                        [startup EXCEPT
                            !.op = "reset", !.name = name,
                            !.ok = InternalSetDefaultValue(
                                       FindCVar(registeredCVars, name),
                                       allowWritingRomCVars, allowWritingInitCVars).ok])

NextStartup ==
    \/ CallExecStartupCommandLine
    \/ CallRuntimeSet
    \/ CallRuntimeReset

SpecStartup == InitStartup /\ [][NextStartup]_vars

\* The words of a text: the maximal runs without a blank.
RECURSIVE WordsFrom(_, _, _)
WordsFrom(text, i, word) ==
    IF i > Len(text) THEN (IF word = << >> THEN << >> ELSE << word >>)
    ELSE IF text[i] = " "
    THEN (IF word = << >> THEN << >> ELSE << word >>) \o WordsFrom(text, i + 1, << >>)
    ELSE WordsFrom(text, i + 1, Append(word, text[i]))

Words(text) == WordsFrom(text, 1, << >>)

\* The sub-lines of a command line, each the list of its words: a '+', alone
\* or in front of a word, starts a new sub-line; the words before the first
\* '+' are a sub-line too.
RECURSIVE SubLinesFrom(_, _, _)
SubLinesFrom(argv, i, line) ==
    IF i > Len(argv) THEN (IF line = << >> THEN << >> ELSE << line >>)
    ELSE IF argv[i][1] = "+"
    THEN (IF line = << >> THEN << >> ELSE << line >>)
         \o SubLinesFrom(argv, i + 1,
                         IF Tail(argv[i]) = << >> THEN << >> ELSE << Tail(argv[i]) >>)
    ELSE SubLinesFrom(argv, i + 1, Append(line, argv[i]))

SubLines(argv) == SubLinesFrom(argv, 1, << >>)

IsSetOrReset(words) == words[1] \in {SetName, ResetName}

\* C23: every sub-line that is a set or reset command was run at once, under
\* the init-only override, and every other sub-line was appended to the
\* buffer, however the '+' are written.
C23_SetRunsAtOnce ==
    startup.done =>
        \A k \in 1..Len(SubLines(startup.argv)) :
            IF IsSetOrReset(SubLines(startup.argv)[k])
            THEN \E j \in 1..Len(startup.ranNow) :
                     /\ Words(startup.ranNow[j].line) = SubLines(startup.argv)[k]
                     /\ startup.ranNow[j].allowInit
            ELSE \E j \in 1..Len(startup.appended) :
                     Words(startup.appended[j]) = SubLines(startup.argv)[k]

\* The '+' of every sub-line is in front of its first word.
PlusAttached(argv) ==
    /\ argv[1][1] = "+"
    /\ \A i \in 1..Len(argv) : argv[i] # Plus

\* With every '+' attached to a first word the sub-lines go where C23 says.
SetRunsAtOnceWhenAttached ==
    startup.done /\ PlusAttached(startup.argv) =>
        \A k \in 1..Len(SubLines(startup.argv)) :
            IF IsSetOrReset(SubLines(startup.argv)[k])
            THEN \E j \in 1..Len(startup.ranNow) :
                     /\ Words(startup.ranNow[j].line) = SubLines(startup.argv)[k]
                     /\ startup.ranNow[j].allowInit
            ELSE \E j \in 1..Len(startup.appended) :
                     Words(startup.appended[j]) = SubLines(startup.argv)[k]

SetRunsAtOnceWhenAttachedReached ==
    /\ startup.done
    /\ PlusAttached(startup.argv)
    /\ Len(startup.ranNow) > 0
    /\ Len(startup.appended) > 0

\* C24: after the startup command line "+set boot.mode warm" the init-only
\* boot.mode is "warm" with Modified clear and the override is off; every
\* later "set boot.mode hot" fails and leaves the value "warm".
C24_InitOverrideOnlyAtStartup ==
    startup.done /\ startup.argv = << PlusSet, BootMode, Warm >> =>
        /\ ~allowWritingInitCVars
        /\ FindCVar(registeredCVars, BootMode).currentValue = Warm
        /\ ~IsModified(FindCVar(registeredCVars, BootMode))
        /\ startup.op = "set" /\ startup.name = BootMode => ~startup.ok

\* The later "set boot.mode hot" has been run after that startup.
C24_Witness ==
    /\ startup.done
    /\ startup.argv = << PlusSet, BootMode, Warm >>
    /\ startup.op = "set"
    /\ startup.name = BootMode
    /\ FindCVar(registeredCVars, BootMode).currentValue = Warm

-----------------------------------------------------------------------------
(* The order of enumeration: enumerateAllCVars and enumerateAllCommands     *)
(* walk the chain from getFirst() along getNext().                           *)

\* The names of the chain, first visited first.
EnumerationOrder(table) == [k \in 1..Len(table) |-> table[k].name]

NamesIn(table) == {table[k].name : k \in 1..Len(table)}

\* The names of order that are in keep, in the order of order.
RECURSIVE Restrict(_, _)
Restrict(order, keep) ==
    IF order = << >> THEN << >>
    ELSE (IF Head(order) \in keep THEN << Head(order) >> ELSE << >>)
         \o Restrict(Tail(order), keep)

\* One step of a registry: an entry that was not there is visited first, and
\* the entries that stay are visited in the order they were visited in.
OrderKept(before, after) ==
    /\ \A k \in 1..Len(after) : after[k].name \notin NamesIn(before) => k = 1
    /\ Restrict(EnumerationOrder(after), NamesIn(before))
         = Restrict(EnumerationOrder(before), NamesIn(after))

-----------------------------------------------------------------------------
(* Draining the buffer (SpecCmd).                                           *)

\* hasBufferedCommands: "cmdBufferUsed > 0".
HasBufferedCommands == cmdBuffer # << >>

\* C26: when no handler adds text, hasBufferedCommands() is false once
\* execBufferedCommands(ExecAll) has returned, whatever the buffer held,
\* commands that fail to parse or to expand included.
C26_DrainedAfterExecAll ==
    (IsBufferedCall /\ lastExec.max = ExecAll /\ NoHandlerAdditions) => ~HasBufferedCommands

-----------------------------------------------------------------------------
(* Aliases that name themselves or one another.  createCommandAlias takes   *)
(* any target text; CommandImplAlias::onExecute hands it to execute().      *)

\* The start-up registry with aliases that loop: s and the pair t, k run their
\* target at once, j inserts itself, and r (of the start-up) appends itself.
AliasLoopCommands ==
    LinkWithKey(LinkWithKey(LinkWithKey(LinkWithKey(StartupCommands,
        NewAlias(<< "s" >>, << "s" >>, "Immediate")),
        NewAlias(<< "t" >>, << "k" >>, "Immediate")),
        NewAlias(<< "k" >>, << "t" >>, "Immediate")),
        NewAlias(<< "j" >>, << "j" >>, "Insert"))

\* Texts that run the aliases, alone and after a plain command.
AliasMenu ==
    { << "s" >>, << "t" >>, << "j" >>, << "r" >>, << "a", ";", "k" >> }

InitAlias ==
    /\ cmdBuffer = << >>
    /\ registeredCommands = AliasLoopCommands
    /\ disabledCmdFlags = {}
    /\ aborted = FALSE
    /\ lastExec = IdleExec
    /\ registeredCVars = StartupCVars
    /\ allowWritingRomCVars = FALSE
    /\ allowWritingInitCVars = FALSE
    /\ lastCVarOp = IdleCVarOp
    /\ splitIn = IdleSplit
    /\ convIn = IdleConv
    /\ MoreIdle

NextAlias ==
    \/ \E str \in AliasMenu : CallExecAppend(str)
    \/ \E str \in AliasMenu : CallExecInsert(str)
    \/ \E str \in AliasMenu : CallExecNow(str)
    \/ \E m \in MaxMenu : CallExecBufferedCommands(m)

SpecAlias == InitAlias /\ [][NextAlias]_vars

\* Entry e of a call's trace ran an alias that executes its target at once.
RanImmediateAlias(e) ==
    /\ e.outcome = "executed"
    /\ IsAlias(FindByKey(registeredCommands, e.name))
    /\ FindByKey(registeredCommands, e.name).execMode = "Immediate"

\* The call nested execNow inside alias handlers until the call stack was used
\* up: no test of the code had stopped it before.
CallStackExhausted ==
    \E k \in 1..Len(lastExec.trace) :
        /\ lastExec.trace[k].depth = MaxCallDepth
        /\ RanImmediateAlias(lastExec.trace[k])

\* C27: executing an alias terminates for every exec mode and target text,
\* aliases that name themselves or form a cycle included: the dispatch
\* completes or a bounded check cuts it off, and it never recurses without
\* bound.
C27_AliasExecutionTerminates == ~CallStackExhausted

-----------------------------------------------------------------------------
(* Draining the buffer in chunks: the host calls execBufferedCommands(k)    *)
(* once per frame while hasBufferedCommands().                               *)

\* Frames the host is followed for: one more than a call may execute.
MaxDrainCalls == MaxReentrantCommands + 1

\* while (hasBufferedCommands()) execBufferedCommands(k): the frames from
\* number calls on.  A frame that executes nothing and leaves the buffer as it
\* was is the last one followed, as every later frame does the same.
RECURSIVE DrainInChunks(_, _, _, _)
DrainInChunks(env, st, k, calls) ==
    IF st.buf = << >> \/ st.aborted \/ calls = MaxDrainCalls THEN st
    ELSE LET r == ExecBufferedCommands(env, st, k)
         IN  IF r.ret = 0 /\ r.st.buf = st.buf THEN r.st
             ELSE DrainInChunks(env, r.st, k, calls + 1)

\* Texts the clients queue before the frames.
DrainMenu ==
    { << "a" >>, << "b" >>, << "i" >>, << "r" >>, << "m" >>, << "x" >>,
      << "a", " ", "b", " ", "c" >>, << "$", "(", ")" >>,
      << "a", "a", "a", "a", "a" >> }

\* Commands per frame.
ChunkMenu == {1, 2, 3}

CallDrainInChunks(k) ==
    /\ ~aborted
    /\ cmdBuffer # << >>
    /\ Returned("drainInChunks", << >>, k,
                [st |-> DrainInChunks(Env, CallStart, k, 0), ret |-> 0])

NextDrain ==
    \/ \E str \in DrainMenu : CallExecAppend(str)
    \/ \E str \in InsertMenu : CallExecInsert(str)
    \/ \E k \in ChunkMenu : CallDrainInChunks(k)

SpecDrain == InitCmd /\ [][NextDrain]_vars

IsChunkedDrain == lastExec.op = "drainInChunks"

\* One execBufferedCommands(ExecAll) on the buffer the frames started with.
AllAtOnce ==
    ExecBufferedCommands(Env, [CallStart EXCEPT !.buf = lastExec.pre], ExecAll).st

\* The frames dispatched what the single call dispatches: the same command
\* texts with the same outcomes, in the same order.
SameDispatches(tr1, tr2) ==
    /\ TextsOf(tr1) = TextsOf(tr2)
    /\ [k \in 1..Len(tr1) |-> tr1[k].outcome] = [k \in 1..Len(tr2) |-> tr2[k].outcome]

\* C28 as stated: repeated execBufferedCommands(k) until the buffer is empty
\* dispatch exactly the commands one execBufferedCommands(ExecAll) dispatches,
\* in the same order, for every k >= 1.
C28_ChunksEqualExecAll ==
    (IsChunkedDrain /\ cmdBuffer = << >>) => SameDispatches(lastExec.trace, AllAtOnce.trace)

\* C28 amended: the frames dispatch the commands of the single call, and leave
\* the buffer it leaves, whenever the single call executes fewer than
\* MaxReentrantCommands commands; the count is kept per call, so the single
\* call discards the buffer at MaxReentrantCommands while frames of fewer
\* commands go on.
ChunksEqualExecAllBelowLimit ==
    (IsChunkedDrain /\ ~AllAtOnce.limit) =>
        /\ SameDispatches(lastExec.trace, AllAtOnce.trace)
        /\ cmdBuffer = AllAtOnce.buf
        /\ aborted = AllAtOnce.aborted

\* Frames of one command ran four commands, one of them queued by a handler,
\* and emptied the buffer.
ChunksEqualExecAllBelowLimitReached ==
    /\ IsChunkedDrain
    /\ lastExec.max = 1
    /\ cmdBuffer = << >>
    /\ ~aborted
    /\ Len(lastExec.trace) = 4
    /\ ~NoHandlerAdditions
    /\ ~AllAtOnce.limit

-----------------------------------------------------------------------------
(* The tokenizer on its own: CommandArgs(cmdStr) on every short text.       *)

MaxTokLen == 6

TokAlphabet == {"a", "\"", "'", " ", ";"}

TokTexts == UNION {[1..n -> TokAlphabet] : n \in 1..MaxTokLen}

tokInOthers == << cmdVars, cvarVars, splitIn, convIn, hashTable, regVars, ioVars, history,
                 nameIn, startup, term, input >>

InitTok ==
    /\ cmdBuffer = << >>
    /\ registeredCommands = StartupCommands
    /\ disabledCmdFlags = {}
    /\ aborted = FALSE
    /\ lastExec = IdleExec
    /\ registeredCVars = StartupCVars
    /\ allowWritingRomCVars = FALSE
    /\ allowWritingInitCVars = FALSE
    /\ lastCVarOp = IdleCVarOp
    /\ splitIn = IdleSplit
    /\ convIn = IdleConv
    /\ hashTable = IdleTable
    /\ cmdAliasCount = Len(SelectSeq(registeredCommands, IsAlias))
    /\ lastRegOp = IdleRegOp
    /\ removedCVars = {}
    /\ lineEdit = NewLineEdit
    /\ cfgFile = NoConfigFile
    /\ startup = IdleStartup
    /\ history = NewHistory
    /\ nameIn = IdleName
    /\ term = NewTerm
    /\ input = NewInput
    /\ tokIn \in {[IdleTok EXCEPT !.str = t] : t \in TokTexts}

\* CommandArgs cmdArgs(str): the constructor runs parseArgString.
CallParseArgString ==
    /\ tokIn.op = "none"
    /\ tokIn' = [tokIn EXCEPT !.op = "parseArgString", !.args = ParseArgString(tokIn.str)]
    /\ UNCHANGED tokInOthers

\* hasFullNameInLineBuffer: a space follows a character that is not one.
HasFullNameInLineBuffer(line) ==
    \E i \in 1..Len(line) : line[i] = " " /\ \E j \in 1..(i - 1) : line[j] # " "

\* "for (; *p != 0 && !isWhitespace(*p); ++p)" from index i.
RECURSIVE SkipToWhitespace(_, _)
SkipToWhitespace(line, i) ==
    IF i <= Len(line) /\ ~IsWhitespace(line[i]) THEN SkipToWhitespace(line, i + 1) ELSE i

\* tabCompletion: the scan for the last partial argument from index i;
\* s is [quotes, lastWs].
RECURSIVE PartialArgScan(_, _, _)
PartialArgScan(line, i, s) ==
    IF i > Len(line) THEN s
    ELSE IF ~s.quotes /\ IsWhitespace(line[i])
    THEN PartialArgScan(line, i + 1, [s EXCEPT !.lastWs = i])
    ELSE IF line[i] = "\"" \/ line[i] = "'"
    THEN PartialArgScan(line, i + 1, [s EXCEPT !.quotes = ~s.quotes])
    ELSE PartialArgScan(line, i + 1, s)

\* tabCompletion: the partial argument when the scan has ended with lastWs.
PartialArgFrom(line, lastWs) == SubSeq(line, SkipWhitespace(line, lastWs), Len(line))

\* tabCompletion: the partial argument of a line whose command name ends
\* before index nameEnd.
PartialArgAfterName(line, nameEnd) ==
    PartialArgFrom(line, PartialArgScan(line, nameEnd,
                                        [quotes |-> FALSE, lastWs |-> nameEnd]).lastWs)

\* tabCompletion: the command name of a line whose name starts at nameStart.
TabCmdName(line, nameStart) == SubSeq(line, nameStart, SkipToWhitespace(line, nameStart) - 1)

\* tabCompletion with the cursor at the end of a line that has a full name:
\* completion of the last argument is offered when the name is that of a
\* CVar or of a command.
TabCompletion(cvars, cmds, line) ==
    LET nameStart == SkipWhitespace(line, 1) IN
    [cmdName    |-> TabCmdName(line, nameStart),
     offered    |-> \/ FindByKey(cvars, TabCmdName(line, nameStart)) # NoEntry
                    \/ FindByKey(cmds, TabCmdName(line, nameStart)) # NoEntry,
     partialArg |-> PartialArgAfterName(line, SkipToWhitespace(line, nameStart))]

CallTabCompletion ==
    /\ tokIn.op = "none"
    /\ HasFullNameInLineBuffer(tokIn.str)
    /\ \E r \in {TabCompletion(registeredCVars, registeredCommands, tokIn.str)} :
           /\ r.offered
           /\ tokIn' = [tokIn EXCEPT !.op = "tabCompletion", !.partialArg = r.partialArg]
    /\ UNCHANGED tokInOthers

\* The indexes of the separators at which execNow's loop ends a command of
\* the line: extractNextCommand is called until it finds no command.
RECURSIVE SplitCuts(_, _, _)
SplitCuts(cvars, line, i) ==
    IF i > Len(line) THEN {}
    ELSE LET r == ExtractNextCommand(cvars, line, i, ConfigLineSize)
         IN  (IF r.done /\ line[r.next - 1] = CommandTextSeparator
              THEN {r.next - 1} ELSE {})
             \cup (IF r.found /\ ~r.overflowed THEN SplitCuts(cvars, line, r.next) ELSE {})

CallSplitLine ==
    /\ tokIn.op = "none"
    /\ tokIn' = [tokIn EXCEPT !.op = "execNow",
                              !.cuts = SplitCuts(registeredCVars, tokIn.str, 1)]
    /\ UNCHANGED tokInOthers

NextTok ==
    \/ CallParseArgString
    \/ CallTabCompletion
    \/ CallSplitLine

SpecTok == InitTok /\ [][NextTok]_vars

IsQuote(c) == c \in {"\"", "'"}

\* The tokens a CommandArgs holds: the command name and the arguments.
StoredTokens(a) == (IF a.hasName THEN << a.cmdName >> ELSE << >>) \o a.args

\* stored keeps every character of the token raw but its enclosing quotes:
\* it is raw itself, raw without its opening quote, or raw without its
\* opening quote and the same quote at its end.
OnlyEnclosingQuotesStripped(raw, stored) ==
    \/ stored = raw
    \/ IsQuote(raw[1]) /\ stored = Tail(raw)
    \/ /\ IsQuote(raw[1]) /\ Len(raw) >= 2 /\ raw[Len(raw)] = raw[1]
       /\ stored = SubSeq(raw, 2, Len(raw) - 1)

\* C29: tokenizing strips only the enclosing quotes of a token, every other
\* character of the token is in the stored argument; a text that ends inside
\* a quotation is tokenized all the same and the tokens are reported.
C29_OnlyEnclosingQuotesStripped ==
    tokIn.op = "parseArgString" =>
        /\ ~tokIn.args.crashed
        /\ \A k \in 1..Len(tokIn.args.raw) :
               OnlyEnclosingQuotesStripped(tokIn.args.raw[k], StoredTokens(tokIn.args)[k])

\* The tokens of the whole line, as CommandArgs delimits them when its arrays
\* hold the line.
LineTokens(line) == ParseConfigArgs(line).raw

\* parseArgString has "quoted" set when it reads the character at index t.
RECURSIVE TokenizerQuotedAt(_, _, _, _)
TokenizerQuotedAt(line, i, t, q) ==
    IF i >= t THEN q.quoted
    ELSE TokenizerQuotedAt(line, i + 1, t,
             IF line[i] = "\"" THEN OnDoubleQuote(q)
             ELSE IF line[i] = "'" THEN OnSingleQuote(q)
             ELSE q)

\* C30: the splitter, the tokenizer and the scan of tabCompletion take the
\* same characters of a line to be inside a quotation: the partial argument
\* offered for completion is the last token of the tokenizer, and the
\* splitter ends a command only outside the quotations of the tokenizer.
C30_ScannersAgreeOnQuotes ==
    /\ ( /\ tokIn.op = "tabCompletion"
         /\ tokIn.partialArg # << >>
         /\ ~ParseConfigArgs(tokIn.str).crashed ) =>
           /\ LineTokens(tokIn.str) # << >>
           /\ tokIn.partialArg = LineTokens(tokIn.str)[Len(LineTokens(tokIn.str))]
    /\ tokIn.op = "execNow" =>
           \A c \in tokIn.cuts : ~TokenizerQuotedAt(tokIn.str, 1, c, QuoteStart)

-----------------------------------------------------------------------------
(* The two overrides of the privileged setter (SpecCVar).                   *)

\* internalSetStringValue / internalSetDefaultValue turn the write of cvar
\* down because of its ReadOnly or InitOnly flag.
PrivilegedRefuses(cvar, allowRom, allowInit) ==
    IF ~IsWritable(cvar) /\ (allowRom \/ allowInit)
    THEN IgnoreRORefused(cvar, allowRom, allowInit)
    ELSE ~IsWritable(cvar)

\* C31: over any sequence of toggles the privileged setter honors two
\* independent overrides: with allowWritingReadOnly it writes ReadOnly
\* variables, InitOnly ones included; with allowWritingInitOnly it writes
\* InitOnly variables; and setting or clearing one override leaves the other
\* as it was.
C31_IndependentOverrides ==
    [][ /\ allowWritingRomCVars =>
              \A k \in 1..Len(registeredCVars) :
                  ~PrivilegedRefuses(registeredCVars[k], allowWritingRomCVars,
                                     allowWritingInitCVars)
        /\ allowWritingInitCVars =>
              \A k \in 1..Len(registeredCVars) :
                  "ReadOnly" \notin registeredCVars[k].flags =>
                      ~PrivilegedRefuses(registeredCVars[k], allowWritingRomCVars,
                                         allowWritingInitCVars)
        /\ lastCVarOp'.op = "setAllowWritingReadOnlyVars" =>
              allowWritingInitCVars' = allowWritingInitCVars
        /\ lastCVarOp'.op = "setAllowWritingInitOnlyVars" =>
              allowWritingRomCVars' = allowWritingRomCVars ]_vars

-----------------------------------------------------------------------------
(* SimpleCommandTerminal::handleKeyInput: the keys of the line editor.  A   *)
(* key handler works on t = [le, h, tm]: the edit buffer, the history and   *)
(* the terminal record.                                                     *)

\* The C string that starts at lineBuffer[i].
RECURSIVE CStringFrom(_, _)
CStringFrom(lineBuffer, i) ==
    IF i \notin DOMAIN lineBuffer \/ lineBuffer[i] = NUL THEN << >>
    ELSE << lineBuffer[i] >> \o CStringFrom(lineBuffer, i + 1)

\* The characters of str from lineBuffer[i] on, and the terminator.
RECURSIVE PutString(_, _, _)
PutString(le, i, str) ==
    IF str = << >> THEN PutChar(le, i, NUL)
    ELSE PutString(PutChar(le, i, Head(str)), i + 1, Tail(str))

\* copyString(lineBuffer + at, size, source); CFG_ASSERT(destSizeInChars > 0).
CopyStringTo(le, at, size, source) ==
    IF size <= 0 THEN [le EXCEPT !.aborted = TRUE]
    ELSE PutString(le, at, CopyString(size, source))

\* SimpleCommandTerminal::clearLineInputBuffer.
ClearLineInputBuffer(le) ==
    PutChar([le EXCEPT !.lineBufferUsed = 0, !.lineBufferInsertionPos = 0], 0, NUL)

\* SimpleCommandTerminal::setLineBuffer.
SetLineBuffer(le, str) ==
    IF str = << >> THEN ClearLineInputBuffer(le)
    ELSE [CopyStringTo(le, 0, LineBufferMaxSize, str) EXCEPT
             !.lineBufferUsed = Len(CopyString(LineBufferMaxSize, str)),
             !.lineBufferInsertionPos = Len(CopyString(LineBufferMaxSize, str))]

\* What a read of cmdHistory outside of the array gives: the run ends, or
\* the bytes found there are taken for a string.
StrayReads == {"crash", << >>, << "a" >>}

\* cmdHistory[i].c_str(), stray being what a read outside of the array gives.
\* Result: t with the read recorded and the string in tm.cmd.
ReadHistory(t, i, stray) ==
    IF i \in DOMAIN t.h.cmdHistory
    THEN [t EXCEPT !.tm.reads = @ \cup {i}, !.tm.cmd = t.h.cmdHistory[i]]
    ELSE IF stray = "crash"
    THEN [t EXCEPT !.tm.reads = @ \cup {i}, !.le.aborted = TRUE]
    ELSE [t EXCEPT !.tm.reads = @ \cup {i}, !.tm.cmd = stray]

\* setLineBuffer(cmd) at the end of a history call.
ShowHistoryCmd(t) ==
    IF t.le.aborted THEN t ELSE [t EXCEPT !.le = SetLineBuffer(t.le, t.tm.cmd)]

\* nextCmdFromHistory, after the first read: cmd is the slot read.
NextCmdStep(t, line, stray) ==
    IF t.le.aborted \/ t.h.currCmdInHistory <= 0 THEN t
    ELSE IF t.tm.cmd = line
    THEN ReadHistory([t EXCEPT !.h.currCmdInHistory = @ - 1],
                     t.h.currCmdInHistory - 1, stray)
    ELSE [t EXCEPT !.h.currCmdInHistory = @ - 1]

\* SimpleCommandTerminal::nextCmdFromHistory (Up arrow).  With the assertion
\* compiled in, an index outside of the array ends the run; without it the
\* read is a stray one.
NextCmdFromHistory(t, stray) ==
    ShowHistoryCmd(NextCmdStep(ReadHistory(t, t.h.currCmdInHistory, stray),
                               CStringFrom(t.le.lineBuffer, 0), stray))

\* prevCmdFromHistory, after ++currCmdInHistory and the first read.
PrevCmdStep(t, line, stray) ==
    IF t.le.aborted THEN t
    ELSE IF t.tm.cmd = line /\ t.h.currCmdInHistory < t.h.indexCmdHistory
    THEN ReadHistory([t EXCEPT !.h.currCmdInHistory = @ + 1],
                     t.h.currCmdInHistory + 1, stray)
    ELSE t

\* SimpleCommandTerminal::prevCmdFromHistory (Down arrow).
PrevCmdFromHistory(t, stray) ==
    IF t.h.currCmdInHistory < t.h.indexCmdHistory - 1
    THEN ShowHistoryCmd(
             PrevCmdStep(ReadHistory([t EXCEPT !.h.currCmdInHistory = @ + 1],
                                     t.h.currCmdInHistory + 1, stray),
                         CStringFrom(t.le.lineBuffer, 0), stray))
    ELSE ShowHistoryCmd([t EXCEPT !.tm.cmd = << >>])

\* SimpleCommandTerminal::discardInput (Escape).
DiscardInput(t) ==
    [t EXCEPT !.h.currCmdInHistory = t.h.indexCmdHistory - 1,
              !.le = SetLineBuffer(t.le, << >>)]

\* cmdCmpNames(a, b) < 0 on names of one letter case.
RECURSIVE CmdCmpLess(_, _)
CmdCmpLess(a, b) ==
    IF b = << >> THEN FALSE
    ELSE IF a = << >> THEN TRUE
    ELSE IF Head(a) # Head(b) THEN CharCode(Head(a)) < CharCode(Head(b))
    ELSE CmdCmpLess(Tail(a), Tail(b))

\* cmdNameStartsWith.
CmdNameStartsWith(name, prefix) ==
    /\ Len(name) >= Len(prefix)
    /\ name # << >> /\ prefix # << >>
    /\ SubSeq(name, 1, Len(prefix)) = prefix

\* cmdSortMatches: the names in alphabetical order.
RECURSIVE CmdSortMatches(_)
CmdSortMatches(names) ==
    IF names = {} THEN << >>
    ELSE LET first == CHOOSE n \in names : \A m \in names \ {n} : CmdCmpLess(n, m)
         IN  << first >> \o CmdSortMatches(names \ {first})

\* findWithPartialNameHelper of either registry: the names that start with
\* partialName, sorted.
FindWithPartialName(table, partialName) ==
    IF partialName = << >> THEN << >>
    ELSE CmdSortMatches({table[k].name : k \in
                            {j \in DOMAIN table : CmdNameStartsWith(table[j].name, partialName)}})

\* builtInCmds[], in the order of the array.
BuiltInNames ==
    << << "e", "x", "i", "t" >>, << "c", "l", "e", "a", "r" >>,
       << "h", "i", "s", "t", "V", "i", "e", "w" >>,
       << "h", "i", "s", "t", "C", "l", "e", "a", "r" >>,
       << "h", "i", "s", "t", "S", "a", "v", "e" >>,
       << "h", "i", "s", "t", "L", "o", "a", "d" >> >>

\* The callback of tabCompletion for the built-ins: those whose first
\* strlen(partialName) characters are partialName.
FindBuiltIns(partialName) ==
    LET Matches(name) == /\ Len(name) >= Len(partialName)
                         /\ SubSeq(name, 1, Len(partialName)) = partialName
    IN  SelectSeq(BuiltInNames, Matches)

\* CVarImpl::valueCompletion without a completion callback: the allowed
\* value strings, whatever partialVal is.
ValueCompletion(cvar) ==
    IF cvar.type = "String" /\ cvar.valueRange.hasList THEN cvar.valueRange.strings
    ELSE << >>

\* findMatchesCb has written found into completionMatches.
MatchesWritten(completionMatches, found) ==
    found \o SubSeq(completionMatches, Len(found) + 1, Len(completionMatches))

\* displayCompletionMatches, exactly one match: the rest of the match is
\* copied behind the line, and a blank when whitespaceAfter1Match.
CompleteTheOnlyMatch(le, completion, whitespaceAfter1Match) ==
    LET size   == LineBufferMaxSize - le.lineBufferUsed
        copied == IF size <= 0 THEN 0 ELSE Len(CopyString(size, completion))
        used   == le.lineBufferUsed + copied
        le1    == [CopyStringTo(le, le.lineBufferUsed, size, completion)
                      EXCEPT !.lineBufferUsed = used]
    IN  IF whitespaceAfter1Match
        THEN [PutChar(PutChar(le1, used, " "), used + 1, NUL)
                 EXCEPT !.lineBufferUsed = used + 1, !.lineBufferInsertionPos = used + 1]
        ELSE [le1 EXCEPT !.lineBufferInsertionPos = used]

\* A cycle that does not advance: nextDisplayedCompletionMatch stays.
CycleToSameMatch(t) ==
    LET partialLen == Min(t.tm.partialStrLength, LineBufferMaxSize - 1)
        matchStr   == t.tm.completionMatches[t.tm.nextDisplayedCompletionMatch + 1]
        size       == LineBufferMaxSize - t.tm.oldLineBufferUsed
        copied     == IF size <= 0 THEN 0
                      ELSE Len(CopyString(size, DropFirst(matchStr, partialLen)))
    IN  [t EXCEPT
            !.le = [CopyStringTo(t.le, t.tm.oldLineBufferUsed, size,
                                 DropFirst(matchStr, partialLen))
                       EXCEPT !.lineBufferUsed = t.tm.oldLineBufferUsed + copied,
                              !.lineBufferInsertionPos = t.tm.oldLineBufferUsed + copied]]

\* displayCompletionMatches, a [TAB] after the first: the next of the saved
\* matches replaces what follows the partial string.
CycleToNextMatch(t) ==
    LET partialLen == Min(t.tm.partialStrLength, LineBufferMaxSize - 1)
        matchStr   == t.tm.completionMatches[t.tm.nextDisplayedCompletionMatch + 1]
        size       == LineBufferMaxSize - t.tm.oldLineBufferUsed
        copied     == IF size <= 0 THEN 0
                      ELSE Len(CopyString(size, DropFirst(matchStr, partialLen)))
    IN  [t EXCEPT
            !.le = [CopyStringTo(t.le, t.tm.oldLineBufferUsed, size,
                                 DropFirst(matchStr, partialLen))
                       EXCEPT !.lineBufferUsed = t.tm.oldLineBufferUsed + copied,
                              !.lineBufferInsertionPos = t.tm.oldLineBufferUsed + copied],
            !.tm.nextDisplayedCompletionMatch = (@ + 1) % t.tm.completionMatchCount]

\* SimpleCommandTerminal::displayCompletionMatches; found is what
\* findMatchesCb finds for partialString, fewer than MaxCompletionMatches.
\* Result: [t, matchFound].
DisplayCompletionMatches(t, partialString, whitespaceAfter1Match, allowCyclingValues, found) ==
    IF ~t.tm.firstAutoCompletionTry THEN [t |-> CycleToNextMatch(t), matchFound |-> TRUE]
    ELSE IF Len(found) = 0 THEN [t |-> t, matchFound |-> FALSE]
    ELSE IF Len(found) = 1
    THEN [t |-> [t EXCEPT
                    !.le = CompleteTheOnlyMatch(t.le, DropFirst(found[1], Len(partialString)),
                                                whitespaceAfter1Match),
                    !.tm.completionMatches = MatchesWritten(@, found),
                    !.tm.matches = 1],
          matchFound |-> TRUE]
    ELSE IF allowCyclingValues
    THEN [t |-> [t EXCEPT !.tm.completionMatches = MatchesWritten(@, found),
                          !.tm.matches = Len(found),
                          !.tm.listed = TRUE,
                          !.tm.firstAutoCompletionTry = FALSE,
                          !.tm.completionMatchCount = Len(found),
                          !.tm.partialStrLength = Len(partialString),
                          !.tm.oldLineBufferUsed = t.le.lineBufferUsed],
          matchFound |-> TRUE]
    ELSE [t |-> [t EXCEPT !.tm.completionMatches = MatchesWritten(@, found),
                          !.tm.matches = Len(found),
                          !.tm.listed = TRUE],
          matchFound |-> TRUE]

\* tabCompletion, no full name in the line yet: the built-ins first, the
\* CVar names when no built-in matched, the commands when no CVar matched.
NameCompletion(t, cvars, cmds, partialCmdName) ==
    IF partialCmdName = << >> THEN t
    ELSE IF DisplayCompletionMatches(t, partialCmdName, TRUE, TRUE,
                                     FindBuiltIns(partialCmdName)).matchFound
    THEN DisplayCompletionMatches(t, partialCmdName, TRUE, TRUE,
                                  FindBuiltIns(partialCmdName)).t
    ELSE IF DisplayCompletionMatches(t, partialCmdName, TRUE, TRUE,
                                     FindWithPartialName(cvars, partialCmdName)).matchFound
    THEN DisplayCompletionMatches(t, partialCmdName, TRUE, TRUE,
                                  FindWithPartialName(cvars, partialCmdName)).t
    ELSE DisplayCompletionMatches(t, partialCmdName, TRUE, TRUE,
                                  FindWithPartialName(cmds, partialCmdName)).t

\* std::strrchr(lineBuffer, c): the index of the last c from index from on,
\* 0 when there is none.
LastIndexOf(line, c, from) ==
    IF \E i \in from..Len(line) : line[i] = c
    THEN CHOOSE i \in from..Len(line) :
             line[i] = c /\ \A j \in (i + 1)..Len(line) : line[j] # c
    ELSE 0

\* tabCompletion: the line ends inside of a "$(" that is not closed.
InOpenExpansion(line) ==
    /\ LastIndexOf(line, "$", 1) # 0
    /\ CharAt(line, LastIndexOf(line, "$", 1) + 1) = "("
    /\ LastIndexOf(line, ")", LastIndexOf(line, "$", 1) + 2) = 0

\* tabCompletion, the line has a full name: the name of a CVar in an open
\* "$(", a value of the CVar the line names, or an argument of the command
\* it names (the commands of the model have no completion callback).
ArgCompletion(t, cvars, cmds, line, cmdName, partialArgStr) ==
    IF InOpenExpansion(line)
    THEN DisplayCompletionMatches(
             t, DropFirst(line, LastIndexOf(line, "$", 1) + 1), FALSE, TRUE,
             FindWithPartialName(cvars, DropFirst(line, LastIndexOf(line, "$", 1) + 1))).t
    ELSE IF FindCVar(cvars, cmdName) # NoEntry
    THEN DisplayCompletionMatches(t, partialArgStr, FALSE, partialArgStr = << >>,
                                  ValueCompletion(FindCVar(cvars, cmdName))).t
    ELSE IF FindByKey(cmds, cmdName) # NoEntry
    THEN DisplayCompletionMatches(t, partialArgStr, TRUE, TRUE, << >>).t
    ELSE t

\* SimpleCommandTerminal::tabCompletion on the line of the edit buffer.
TabCompletionOf(t, cvars, cmds, line) ==
    IF t.le.lineBufferInsertionPos # t.le.lineBufferUsed THEN t
    ELSE IF t.le.lineBufferUsed = 0 THEN t
    ELSE IF HasFullNameInLineBuffer(line)
    THEN ArgCompletion(t, cvars, cmds, line, TabCmdName(line, SkipWhitespace(line, 1)),
                       PartialArgAfterName(line,
                                           SkipToWhitespace(line, SkipWhitespace(line, 1))))
    ELSE NameCompletion(t, cvars, cmds, DropFirst(line, SkipWhitespace(line, 1) - 1))

\* SimpleCommandTerminal::finishCommand (Return) up to the call of
\* execCmdLine: tm.cmd is the line handed to it, tm.ran tells that it has a
\* name to look up.
FinishCommand(t, line) ==
    IF t.le.lineBufferUsed = 0 THEN t
    ELSE IF t.le.lineBuffer[0] \in {NUL, "\n", "\r"}
    THEN [t EXCEPT !.le = ClearLineInputBuffer(t.le)]
    ELSE [t EXCEPT !.h = AddCmdToHistory(t.h, line),
                   !.tm.stored = TRUE,
                   !.tm.ran = SkipWhitespace(line, 1) <= Len(line),
                   !.tm.cmd = line,
                   !.le = ClearLineInputBuffer(t.le)]

Keys == {"Return", "Tab", "Backspace", "Delete", "UpArrow", "DownArrow", "RightArrow",
         "LeftArrow", "Escape", "Char"}

\* handleKeyInput: the [TAB] completion state is reset by every other key.
KeyStart(key) ==
    [le |-> lineEdit,
     h  |-> history,
     tm |-> [(IF key = "Tab" THEN term
              ELSE [term EXCEPT !.firstAutoCompletionTry = TRUE,
                                !.nextDisplayedCompletionMatch = 0,
                                !.oldLineBufferUsed = 0])
                EXCEPT !.key = key, !.reads = {}, !.cmd = << >>, !.stored = FALSE,
                       !.ran = FALSE, !.listed = FALSE, !.matches = 0]]

\* handleKeyInput: the switch over the key.
KeyHandled(t, key, chr, printable, stray, cvars, cmds) ==
    CASE key = "Return"     -> FinishCommand(t, CStringFrom(t.le.lineBuffer, 0))
      [] key = "Tab"        -> TabCompletionOf(t, cvars, cmds, CStringFrom(t.le.lineBuffer, 0))
      [] key = "Backspace"  -> [t EXCEPT !.le = PopChar(t.le)]
      [] key = "Delete"     -> [t EXCEPT !.le = DelChar(t.le)]
      [] key = "UpArrow"    -> NextCmdFromHistory(t, stray)
      [] key = "DownArrow"  -> PrevCmdFromHistory(t, stray)
      [] key = "RightArrow" -> [t EXCEPT !.le = NavigateTextRight(t.le)]
      [] key = "LeftArrow"  -> [t EXCEPT !.le = NavigateTextLeft(t.le)]
      [] key = "Escape"     -> DiscardInput(t)
      [] OTHER              -> [t EXCEPT !.le = InsertChar(t.le, chr, printable)]

\* SimpleCommandTerminal::handleKeyInput(key, chr); printable is what
\* std::isprint(chr) returns, stray what a read outside of cmdHistory gives.
\* Return runs the line with the terminal's cmdExecMode, Append.
HandleKeyInput(key, chr, printable, stray) ==
    /\ ~aborted
    /\ ~lineEdit.aborted
    /\ \E t \in {KeyHandled(KeyStart(key), key, chr, printable, stray,
                             registeredCVars, registeredCommands)} :
           /\ lineEdit' = t.le
           /\ history' = t.h
           /\ term' = t.tm
           /\ IF t.tm.stored
              THEN \E r \in {ExecCmdLine(Env, CallStart, t.tm.cmd, "Append")} :
                       /\ cmdBuffer' = r.st.buf
                       /\ aborted' = r.st.aborted
                       /\ registeredCVars' = r.cvars
                       /\ lastExec' = Observe("execCmdLine", t.tm.cmd, 0, r.st, 0)
              ELSE UNCHANGED << cmdBuffer, aborted, registeredCVars, lastExec >>
    /\ UNCHANGED << registeredCommands, disabledCmdFlags, allowWritingRomCVars,
                    allowWritingInitCVars, lastCVarOp, splitIn, convIn, hashTable, regVars,
                    cfgFile, nameIn, startup, tokIn, input >>

\* The built-in histClear: term.clearCommandHistory().
CallHistClear ==
    /\ ~aborted
    /\ ~lineEdit.aborted
    /\ history' = ClearCommandHistory(history)
    /\ term' = KeyStart("histClear").tm
    /\ UNCHANGED << cmdVars, cvarVars, splitIn, convIn, hashTable, regVars, ioVars, nameIn,
                    startup, tokIn, input >>

\* The registries of the terminal: the CVar a with the allowed values a and
\* b, the commands ba and bb.
TermCVars ==
    RegisterCVar(<< >>, << "a" >>, "String", {}, << "a" >>,
                 AllowedStrings(TRUE, << << "a" >>, << "b" >> >>))

TermCommands ==
    LinkWithKey(LinkWithKey(<< >>,
        NewCommand(<< "b", "a" >>, {}, 0 - 1, 0 - 1)),
        NewCommand(<< "b", "b" >>, {}, 0 - 1, 0 - 1))

InitTerm ==
    /\ cmdBuffer = << >>
    /\ registeredCommands = TermCommands
    /\ disabledCmdFlags = {}
    /\ aborted = FALSE
    /\ lastExec = IdleExec
    /\ registeredCVars = TermCVars
    /\ allowWritingRomCVars = FALSE
    /\ allowWritingInitCVars = FALSE
    /\ lastCVarOp = IdleCVarOp
    /\ splitIn = IdleSplit
    /\ convIn = IdleConv
    /\ MoreIdle

\* Recalling lines: the printable character a, Return, the keys of the
\* history, the history cleared.
NextRecall ==
    \/ HandleKeyInput("Char", "a", TRUE, "crash")
    \/ HandleKeyInput("Return", NUL, FALSE, "crash")
    \/ \E stray \in StrayReads : HandleKeyInput("UpArrow", NUL, FALSE, stray)
    \/ \E stray \in StrayReads : HandleKeyInput("DownArrow", NUL, FALSE, stray)
    \/ HandleKeyInput("Escape", NUL, FALSE, "crash")
    \/ CallHistClear

SpecRecall == InitTerm /\ [][NextRecall]_vars

\* Finishing lines: the printable character a and the blank, Backspace and
\* Return.
NextReturn ==
    \/ \E chr \in {"a", " "} : HandleKeyInput("Char", chr, TRUE, "crash")
    \/ HandleKeyInput("Backspace", NUL, FALSE, "crash")
    \/ HandleKeyInput("Return", NUL, FALSE, "crash")

SpecReturn == InitTerm /\ [][NextReturn]_vars

\* C32: with an empty command history, the Up and Down arrows
\* (nextCmdFromHistory, prevCmdFromHistory) leave the line input buffer, its
\* used length and the cursor as they were.
C32_RecallNoOpWithoutHistory ==
    [][ (term'.key \in {"UpArrow", "DownArrow"} /\ history.indexCmdHistory = 0)
        => /\ lineEdit'.lineBuffer = lineEdit.lineBuffer
           /\ lineEdit'.lineBufferUsed = lineEdit.lineBufferUsed
           /\ lineEdit'.lineBufferInsertionPos = lineEdit.lineBufferInsertionPos ]_vars

\* The line has a character that is not whitespace.
IsNonBlank(line) == \E i \in 1..Len(line) : ~IsWhitespace(line[i])

\* C33: on Return the line is appended to the history and executed if and
\* only if the edit buffer is non-empty and non-blank, and the edit buffer
\* is empty afterwards in every case.
C33_ReturnStoresNonBlankLines ==
    [][ term'.key = "Return"
        => /\ term'.stored <=> IsNonBlank(CStringFrom(lineEdit.lineBuffer, 0))
           /\ term'.ran <=> IsNonBlank(CStringFrom(lineEdit.lineBuffer, 0))
           /\ lineEdit'.lineBufferUsed = 0
           /\ lineEdit'.lineBuffer[0] = NUL ]_vars

\* C39: every read of the history array uses an index i with
\* 0 <= i < number of stored entries <= CmdHistoryMaxSize, whatever keys
\* came before, with the history empty or full.
C39_HistoryReadsInRange ==
    /\ history.indexCmdHistory <= CmdHistoryMaxSize
    /\ \A i \in term.reads : 0 <= i /\ i < history.indexCmdHistory

\* Completing lines: the printable characters a and b and the blank, [TAB],
\* the editing keys, the keys of the (empty) history.
NextTab ==
    \/ \E chr \in {"a", "b", " "} : HandleKeyInput("Char", chr, TRUE, "crash")
    \/ HandleKeyInput("Tab", NUL, FALSE, "crash")
    \/ \E key \in {"Backspace", "Delete", "LeftArrow", "RightArrow", "Escape"} :
           HandleKeyInput(key, NUL, FALSE, "crash")
    \/ \E key \in {"UpArrow", "DownArrow"}, stray \in StrayReads :
           HandleKeyInput(key, NUL, FALSE, stray)

SpecTab == InitTerm /\ [][NextTab]_vars

\* C38: whatever keys handleKeyInput was fed, the edit buffer stays inside
\* its storage: used <= LineBufferMaxSize - 1, 0 <= cursor <= used, and the
\* byte at index used is the NUL terminator.
C38_EditBufferInBounds ==
    /\ lineEdit.lineBufferUsed <= LineBufferMaxSize - 1
    /\ 0 <= lineEdit.lineBufferInsertionPos
    /\ lineEdit.lineBufferInsertionPos <= lineEdit.lineBufferUsed
    /\ lineEdit.lineBufferUsed \in DOMAIN lineEdit.lineBuffer
    /\ lineEdit.lineBuffer[lineEdit.lineBufferUsed] = NUL

\* The line of the edit buffer.
LineOf(le) == CStringFrom(le.lineBuffer, 0)

\* The line with its partial string replaced by the next of the saved
\* matches.
PartialReplacedByNextMatch ==
    SubSeq(LineOf(lineEdit), 1, term.oldLineBufferUsed - term.partialStrLength)
        \o term.completionMatches[term.nextDisplayedCompletionMatch + 1]

EligibleForCycling(cvars, line) ==
    \/ ~HasFullNameInLineBuffer(line)
    \/ InOpenExpansion(line)
    \/ FindCVar(cvars, TabCmdName(line, SkipWhitespace(line, 1))) = NoEntry
    \/ PartialArgAfterName(line, SkipToWhitespace(line, SkipWhitespace(line, 1))) = << >>

-----------------------------------------------------------------------------
(* UnixTerminal: the input thread stores the keys sysWaitChar returns into  *)
(* inputBuffer, the main loop takes them out with hasInput and getInput.    *)
(* inputBufferInsertionPos is a std::atomic<int>, inputBuffer a plain       *)
(* array: a step is one access of either.  The keys typed are numbered in   *)
(* the order of typing; 0 is the null input.                                *)

\* The keys typed in a run.
MaxKeysTyped == 3

inputOthers == << cmdVars, cvarVars, splitIn, convIn, hashTable, regVars, ioVars, history,
                 nameIn, startup, tokIn, term >>

\* inputThreadFunction: "if (inputBufferInsertionPos < InputBufferSize)".
InputThreadTest ==
    /\ input.thread = "loop"
    /\ input.inputBufferInsertionPos < InputBufferSize
    /\ input' = [input EXCEPT !.thread = "increment"]
    /\ UNCHANGED inputOthers

\* inputThreadFunction: "inputBufferInsertionPos++" of the subscript.
InputThreadIncrement ==
    /\ input.thread = "increment"
    /\ input' = [input EXCEPT !.slot = input.inputBufferInsertionPos,
                              !.inputBufferInsertionPos = @ + 1,
                              !.thread = "store"]
    /\ UNCHANGED inputOthers

\* inputThreadFunction: "inputBuffer[...] = sysWaitChar()", the next key
\* typed is stored.
InputThreadStore ==
    /\ input.thread = "store"
    /\ Len(input.typed) < MaxKeysTyped
    /\ input' = [input EXCEPT !.inputBuffer[input.slot] = Len(input.typed) + 1,
                              !.typed = Append(@, Len(input.typed) + 1),
                              !.thread = "loop"]
    /\ UNCHANGED inputOthers

\* getInput: "if (!isATerminal || inputBufferInsertionPos <= 0) return 0",
\* the null input; called when hasInput has returned true or without
\* asking.
GetInputTest ==
    /\ input.call = "idle"
    /\ input' = IF input.inputBufferInsertionPos <= 0 THEN input
                ELSE [input EXCEPT !.call = "decrement"]
    /\ UNCHANGED inputOthers

\* getInput: "--inputBufferInsertionPos" of the subscript.
GetInputDecrement ==
    /\ input.call = "decrement"
    /\ input' = [input EXCEPT !.inputBufferInsertionPos = @ - 1,
                              !.index = input.inputBufferInsertionPos - 1,
                              !.call = "read"]
    /\ UNCHANGED inputOthers

\* getInput: "return inputBuffer[...]".
GetInputRead ==
    /\ input.call = "read"
    /\ input' = [input EXCEPT
                     !.returned = Append(@, input.inputBuffer[input.index]),
                     !.early = @ \/ (input.thread = "store" /\ input.slot = input.index),
                     !.call = "idle"]
    /\ UNCHANGED inputOthers

NextInput ==
    \/ InputThreadTest
    \/ InputThreadIncrement
    \/ InputThreadStore
    \/ GetInputTest
    \/ GetInputDecrement
    \/ GetInputRead

SpecInput == InitCmd /\ [][NextInput]_vars

\* C36: the keys are delivered in the order they were produced: when the
\* input thread has stored key a before key b, getInput returns a before b,
\* also with several keys pending.
C36_KeysDeliveredInOrder ==
    \A i, j \in DOMAIN input.returned :
        (i < j /\ input.returned[i] # 0 /\ input.returned[j] # 0)
            => input.returned[i] < input.returned[j]

\* How often getInput has returned key.
TimesReturned(key) == Cardinality({i \in DOMAIN input.returned : input.returned[i] = key})

\* key waits in inputBuffer for a getInput call.
IsPending(key) ==
    \/ \E i \in 0..(input.inputBufferInsertionPos - 1) : input.inputBuffer[i] = key
    \/ input.call = "read" /\ input.inputBuffer[input.index] = key

EachKeyOnce ==
    \A key \in 1..Len(input.typed) :
        /\ TimesReturned(key) <= 1
        /\ TimesReturned(key) = 0 => IsPending(key)

WriteIndexInBounds ==
    /\ input.inputBufferInsertionPos \in 0..InputBufferSize
    /\ input.thread = "store" => input.slot \in 0..(InputBufferSize - 1)
    /\ input.call = "read" => input.index \in 0..(InputBufferSize - 1)

\* C37: under every interleaving of the input thread and the main loop,
\* each key stored is returned by getInput exactly once, getInput never
\* returns the content of a slot that has not been written yet, and the
\* write index stays inside of the input buffer.
C37_EachKeyOnceNoEarlyRead ==
    /\ EachKeyOnce
    /\ ~input.early
    /\ WriteIndexInBounds

-----------------------------------------------------------------------------
(* The command buffer as a whole (SpecCmd).  cmdBuffer is the used part of  *)
(* the array, cmdBufferUsed its length; the terminator is the byte behind   *)
(* it, which lies in the array when the length is below CommandBufferSize.  *)

\* C40: after any sequence of execAppend, execInsert and
\* execBufferedCommands calls, handlers included, the command buffer is
\* well-formed: 0 <= used < CommandBufferSize, the terminator stands at
\* index used and nowhere before it, and an append or insert rejected for
\* lack of space leaves content and used length as they were, both as a
\* call of the client and as the call a handler would make on this buffer.
C40_CommandBufferWellFormed ==
    /\ Len(cmdBuffer) < CommandBufferSize
    /\ \A i \in DOMAIN cmdBuffer : cmdBuffer[i] # NUL
    /\ (lastExec.op \in {"execAppend", "execInsert"} /\ lastExec.rejected)
           => cmdBuffer = lastExec.pre
    /\ \A str \in AppendMenu \cup InsertMenu :
           /\ Len(ExecAppend(cmdBuffer, str)) < CommandBufferSize
           /\ Len(ExecInsert(cmdBuffer, str)) < CommandBufferSize
           /\ BufferDepleted(cmdBuffer, str)
                  => /\ ExecAppend(cmdBuffer, str) = cmdBuffer
                     /\ ExecInsert(cmdBuffer, str) = cmdBuffer

\* An execAppend call was rejected on a buffer filled to its last byte.
C40_Witness ==
    /\ lastExec.op = "execAppend"
    /\ lastExec.rejected
    /\ ~aborted
    /\ Len(cmdBuffer) = CommandBufferSize - 1

-----------------------------------------------------------------------------
(* Frame of the registry calls (SpecReg).                                   *)

\* The names of both registries.
RegisteredNames(cmds, cvars) == NamesIn(cmds) \cup NamesIn(cvars)

\* C35: a registry call on the name x touches the entry named x only: a
\* removal never removes an entry of another name, a failed removal of an
\* absent name changes nothing, and a registration of y never fails as a
\* duplicate because of an entry with a different name.
C35_RegistryFrame ==
    [][ /\ lastRegOp'.op \in {"removeCVar", "removeCommand", "removeCommandAlias"}
           => /\ \A y \in NamesIn(registeredCVars) \ {lastRegOp'.name} :
                     y \in NamesIn(registeredCVars')
              /\ \A y \in NamesIn(registeredCommands) \ {lastRegOp'.name} :
                     y \in NamesIn(registeredCommands')
              /\ lastRegOp'.name \notin RegisteredNames(registeredCommands, registeredCVars)
                     => /\ ~lastRegOp'.ok
                        /\ registeredCVars' = registeredCVars
                        /\ registeredCommands' = registeredCommands
        /\ (/\ lastRegOp'.op = "registerCVar"
            /\ IsValidCVarName(lastRegOp'.name)
            /\ lastRegOp'.name \notin NamesIn(registeredCVars))
           => lastRegOp'.ok
        /\ (/\ lastRegOp'.op = "registerCommand"
            /\ IsValidCommandName(lastRegOp'.name)
            /\ lastRegOp'.name \notin RegisteredNames(registeredCommands, registeredCVars))
           => lastRegOp'.ok ]_vars

====
